---- MODULE Spec2Model ----
(***************************************************************************)
(* Orchestrator WebSocket core of the Mesh: JWT-gated admission            *)
(* (websocket_endpoint), the per-client ClientConnection with its bounded  *)
(* outgoing queue and its sender / receiver / heartbeat tasks, the         *)
(* ConnectionManager and the bus fan-out handler.                          *)
(*                                                                         *)
(* The program runs on one asyncio event loop: a coroutine runs without    *)
(* interruption from one suspending await to the next, so every action     *)
(* below is the code between two suspension points.  An await on an        *)
(* uncontended asyncio.Lock or on a coroutine that returns without         *)
(* suspending does not yield and is therefore inside the action.           *)
(***************************************************************************)
EXTENDS Integers, Sequences, FiniteSets, TLC

\* ------------------------------------------------------------------ bounds
\* connection attempts (one websocket_endpoint invocation each)
Conns == {"c1", "c2"}
\* session identifiers that can appear in the path and in a token subject
Sessions == {"s1", "s2"}
\* capacity of the outgoing queue (settings.WEBSOCKET_MAX_QUEUE_SIZE, 100 by
\* default), scaled down
MaxQueue == 1
\* number of messages (bus messages and receiver acknowledgements) offered to
\* connections in one behaviour
MaxMsgs == 6
\* number of messages offered after the start of the fan-out specification
FanoutMsgs == 2

\* number of messages published on the bus while the subscriber loop runs
MaxPub == 2
\* number of faults (broker outages, unexpected errors) in one behaviour
MaxFaults == 2

\* number of analysis windows fed to one VAD stream
MaxWindows == 16
MaxChunks == 3
\* settings.WHISPER_MAX_BUFFERED_CHUNKS (4 by default), scaled down
MaxInFlight == 2
\* number of segments the segmenter hands to one speech-to-text session
MaxSegs == 3
\* number of segments of a session whose teardown is followed to the end
ShortSegs == 2

\* number of messages the trigger service receives on the intents channel
MaxIntents == 2
\* longest styles and brand_refs list of a mapping request
MaxRefs == 2
\* number of mapping requests in one behaviour
MaxMapCalls == 1
\* number of sessions created through the REST router, and clock readings
MaxApiSessions == 2
MaxClock == 2
\* number of times the mappings file is written, and of mapping requests
MaxWrites == 3
MaxRequests == 2

\* --------------------------------------------------------- program constants
QueueFullLimit == 3
\* settings.CONFIDENCE_THRESHOLD = 0.75, in hundredths
CONFIDENCE_THRESHOLD == 75
\* the fields of ThemeTokens (two of them) and keys it does not declare
ThemeFields == {"border_radius", "shadow"}
ExtraKeys == {"glow"}
\* the fields SessionCreateResponse declares
SessionCreateResponseFields == {"session_id", "message"}
WS_1000_NORMAL_CLOSURE == 1000
WS_1008_POLICY_VIOLATION == 1008
WS_1011_INTERNAL_ERROR == 1011
AUDIO_SAMPLE_RATE == 16000
VAD_WINDOW_SIZE_SAMPLES == 512
VAD_MIN_SILENCE_DURATION_MS == 350
min_speech_duration_ms == 100

REDIS_SUBSCRIBE_CHANNELS ==
    << "transcripts", "intents", "components", "insights",
       "design_specs", "service_status" >>

Channels == { REDIS_SUBSCRIBE_CHANNELS[i] : i \in 1..Len(REDIS_SUBSCRIBE_CHANNELS) }

NoSub == "nosub"
NoToken == [present |-> FALSE, sig |-> FALSE, expired |-> FALSE, sub |-> NoSub]

\* the tokens a client can present: none, or a JWT that may carry a wrong
\* signature, be expired, lack the subject, or name any session
Tokens ==
    {NoToken} \cup
    [present : {TRUE}, sig : BOOLEAN, expired : BOOLEAN, sub : Sessions \cup {NoSub}]

\* A queued string is identified by its acceptance stamp: the n-th string
\* that send_json_str put on the queue of a connection is n.  The content of
\* the string broadcast last is kept in bus.msg.
NoMsg == 0

VARIABLES
    conn,                \* the ClientConnection (and endpoint) of each attempt
    active_connections,  \* ConnectionManager.active_connections
    bus,                 \* the subscriber task inside global_redis_message_handler
    handled,             \* the last bus message given to the handler and its fate
    offers,              \* number of messages offered to connections so far
    redis,               \* the RedisClient, its subscriber loop and the broker
    vad,                 \* one SileroVAD stream
    stt,                 \* one speech-to-text session: engine and pipeline
    trigger,             \* the TriggerService and what it published
    mapper,              \* the design mapper: its last request and answer
    api,                 \* the orchestrator's REST router and active_sessions
    loader               \* the MappingsLoader, the mappings file and a request

vars == << conn, active_connections, bus, handled, offers, redis, vad, stt,
           trigger, mapper, api, loader >>

\* the state of the orchestrator's WebSocket service, and everything else
wsVars == << conn, active_connections, bus, handled, offers >>
notWs == << redis, vad, stt, trigger, mapper, api, loader >>

\* ------------------------------------------------------------ security.py
\* a decode that does not verify the expiry claim
decode_jwt_token_no_expiry(token) ==
    IF token.sig /\ token.sub # NoSub
    THEN [ok |-> TRUE, sub |-> token.sub]
    ELSE [ok |-> FALSE, sub |-> NoSub]

\* decode_jwt_token: jwt.decode verifies signature and expiry (JWTError ->
\* ValueError); TokenPayload(**payload) requires the field sub.
decode_jwt_token(token) ==
    IF token.sig /\ ~token.expired /\ token.sub # NoSub
    THEN [ok |-> TRUE, sub |-> token.sub]
    ELSE [ok |-> FALSE, sub |-> NoSub]

\* ------------------------------------------------------- ClientConnection
InitConn ==
    [ ep |-> "idle", session_id |-> "none", token |-> NoToken,
      ws_accepted |-> FALSE, client_state |-> "CONNECTING",
      ws_close_code |-> 0, ws_close_reason |-> "none",
      active |-> FALSE, outgoing_queue |-> << >>, maxsize |-> MaxQueue,
      queue_full_count |-> 0,
      sender_task |-> "none", receiver_task |-> "none", heartbeat_task |-> "none",
      stt_ws |-> "none", message_json_str |-> NoMsg,
      closePc |-> "idle", closer |-> "none", close_code |-> 0,
      close_reason |-> "none", close_calls |-> 0, late_close |-> FALSE,
      ws_close_calls |-> 0, stt_close_calls |-> 0,
      accepted |-> << >>, delivered |-> << >> ]

\* asyncio.Queue.full(): a queue built with maxsize <= 0 is never full
QueueFull(cn) == cn.maxsize > 0 /\ Len(cn.outgoing_queue) >= cn.maxsize

\* Task.cancel() on a task: a finished (or not created) task is left alone,
\* any other receives CancelledError at the await it is suspended in
Cancel(task) == IF task \in {"none", "done"} THEN task ELSE "cancelled"

\* a close without the guard on active
CloseUnguarded(cn, code, reason, caller) ==
    [cn EXCEPT
        !.active = FALSE,
        !.close_calls = @ + 1,
        !.late_close = @ \/ (cn.closePc = "returned"),
        !.closer = caller, !.close_code = code, !.close_reason = reason,
        !.sender_task = IF caller = "sender" THEN "inclose" ELSE Cancel(@),
        !.receiver_task = IF caller = "receiver" THEN "inclose" ELSE Cancel(@),
        !.heartbeat_task = Cancel(@),
        !.closePc = "gather"]

\* ClientConnection.close up to its first suspension: the guard on active,
\* active = False, the cancellation of the three tasks and the start of
\* asyncio.gather over them.  When the caller is one of the three tasks it
\* is itself among the awaited tasks: the gather can only finish after the
\* caller has, and the caller only after the gather (in CPython the pending
\* self-cancellation recurses between Task.cancel and the gathering future's
\* cancel and the task is left suspended on the gather), so the caller stays
\* "inclose".
Close(cn, code, reason, caller) ==
    IF ~cn.active
    THEN [cn EXCEPT !.close_calls = @ + 1,
                    !.late_close = @ \/ (cn.closePc = "returned")]
    ELSE [cn EXCEPT
            !.active = FALSE,
            !.close_calls = @ + 1,
            !.closer = caller, !.close_code = code, !.close_reason = reason,
            !.sender_task = IF caller = "sender" THEN "inclose" ELSE Cancel(@),
            !.receiver_task = IF caller = "receiver" THEN "inclose" ELSE Cancel(@),
            !.heartbeat_task = Cancel(@),
            !.closePc = "gather"]

\* asyncio.Queue.put_nowait on a queue that is not full
PutNowait(q, m) == Append(q, m)

\* the stamp of the string a connection accepts next
Stamp(cn) == Len(cn.accepted) + 1

\* a send_json_str that makes room on a full queue by evicting the oldest
\* string
send_json_str_evict(cn, caller) ==
    IF ~cn.active THEN cn
    ELSE IF ~QueueFull(cn)
    THEN [cn EXCEPT !.outgoing_queue = PutNowait(@, Stamp(cn)),
                    !.accepted = Append(@, Stamp(cn))]
    ELSE LET dropped == [cn EXCEPT !.queue_full_count = @ + 1,
                                   !.outgoing_queue = Append(Tail(@), Stamp(cn)),
                                   !.accepted = Append(@, Stamp(cn))] IN
         IF dropped.queue_full_count > QueueFullLimit
         THEN Close(dropped, WS_1011_INTERNAL_ERROR, "backpressure", caller)
         ELSE dropped

\* ClientConnection.send_json_str
send_json_str(cn, caller) ==
    IF ~cn.active THEN cn
    ELSE IF ~QueueFull(cn)
    THEN [cn EXCEPT !.outgoing_queue = PutNowait(@, Stamp(cn)),
                    !.accepted = Append(@, Stamp(cn))]
    ELSE LET dropped == [cn EXCEPT !.queue_full_count = @ + 1] IN
         IF dropped.queue_full_count > QueueFullLimit
         THEN Close(dropped, WS_1011_INTERNAL_ERROR, "backpressure", caller)
         ELSE dropped

\* ------------------------------------------------------ ConnectionManager
\* ConnectionManager.disconnect: the lock is never held across a suspension,
\* so removal and the start of close are one step
disconnect(c, caller) ==
    /\ active_connections' = active_connections \ {c}
    /\ conn' = [conn EXCEPT ![c] = Close(@, WS_1000_NORMAL_CLOSURE, "none", caller)]

\* --------------------------------------------------------- redis_client.py
\* The RedisClient after the startup of main.py: connect() has succeeded and
\* start_subscriber has created the subscriber task, which has not run yet.
\* Next to the fields of the client the record holds the position of the
\* loop (pc), of the shutdown call (sd), and the broker: whether it is
\* reachable (up), whether the sockets of the connection and of the pub/sub
\* client are alive, the messages buffered for the subscription (inbox), the
\* message the handler is working on (inhand), those passed to the handler
\* (passed) and those dropped with a closed subscription (lost).
RedisClientInit ==
    [pc |-> "loop", sd |-> "none",
     is_connected |-> TRUE, redis_connection |-> TRUE, pubsub_client |-> FALSE,
     subscriber_task |-> TRUE, stop_event |-> FALSE, observed |-> FALSE,
     up |-> TRUE, connLive |-> TRUE, pubsubLive |-> FALSE,
     faults |-> 0, subs |-> 0, pub |-> 0,
     inbox |-> << >>, inhand |-> 0, outcome |-> "none",
     passed |-> << >>, lost |-> {}, old |-> "none"]

\* The RedisClient as __init__ leaves it, before startup_event has run:
\* no connection and no subscriber task.  old follows a subscriber loop that
\* was running when start_subscriber was called again.
RedisClientBoot(up) ==
    [RedisClientInit EXCEPT !.pc = "boot", !.is_connected = FALSE,
                            !.redis_connection = FALSE, !.connLive = FALSE,
                            !.subscriber_task = FALSE, !.up = up]

\* ------------------------------------------------------------------ vad.py
\* SileroVAD after reset_states.  The stream is counted in analysis windows:
\* frames is the length of _current_speech_frames, speech the number of
\* those windows the model scored as speech, fed the windows processed so
\* far; emitted lists the yielded segments, dropped counts the discarded ones.
\* first and last are the positions in the stream of the windows at the
\* head and at the tail of _current_speech_frames (0 when it is empty);
\* silent_since_speech counts
\* the windows scored as silence since the last window scored as speech.
\* audio_buffer is _audio_buffer as runs of bytes of the incoming chunks,
\* chunk_lens the lengths of the chunks received, analysed the windows cut
\* from the buffer and handed to _bytes_to_tensor.
SileroVADInit ==
    [is_speaking |-> FALSE, frames |-> 0, speech |-> 0,
     silence_counter_ms |-> 0, fed |-> 0, ended |-> FALSE,
     emitted |-> << >>, dropped |-> 0,
     first |-> 0, last |-> 0, silent_since_speech |-> 0,
     audio_buffer |-> << >>, chunk_lens |-> << >>, analysed |-> << >>]

\* ------------------------------------- whisper_engine.py, stt websocket.py
NoResult == [kind |-> "none", duration |-> 0]

\* One speech-to-text session after websocket_endpoint has created the
\* pipeline task: the WhisperEngine (semaphore, the transcription task of
\* each segment and its result, completion order), transcribe_stream (gen,
\* active_tasks, the iteration over done), and audio_processing_pipeline
\* (pipe, the result in hand, the utterance id, the segment start, the
\* finality event, what was sent and published, the publish calls made),
\* and websocket_endpoint (ep, the exception exc the pipeline task ended
\* with, the error message and close code sent, membership of
\* manager.active_connections, RedisPublisher._is_connected).  fault records
\* what went wrong inside the pipeline: the client disconnected, or an error.
SttInit ==
    [semaphore |-> MaxInFlight,
     task |-> [i \in 1..MaxSegs |-> "none"],
     result |-> [i \in 1..MaxSegs |-> NoResult],
     completed |-> << >>,
     segs |-> 0, gen |-> "next", active_tasks |-> << >>, done |-> << >>,
     pipe |-> "iter", hand |-> 0,
     current_utterance_id |-> 1,
     current_utterance_segment_start_time_s |-> 0,
     event |-> FALSE,
     records |-> << >>, published |-> << >>,
     slow |-> 0, slow_owed |-> FALSE,
     attempts |-> << >>,
     ep |-> "await", exc |-> "none", fault |-> "none",
     error_sent |-> FALSE, ws_close_code |-> 0,
     connected |-> TRUE, is_connected |-> TRUE]

\* ------------------------------------------------------- TriggerService
NoIntent ==
    [type |-> "none", valid |-> FALSE, utterance_id |-> "none",
     component |-> "none", confidence |-> 0]

\* a service that subscribed and has received nothing; published holds the
\* payloads given to redis.publish on the design_specs channel
TriggerInit ==
    [received |-> 0, message |-> NoIntent, mapping |-> "none",
     published |-> << >>]

\* ---------------------------------------------------------- design mapper
None == [type |-> "null"]

\* ThemeTokens(): every field None, additional_properties empty
ThemeTokens == [fields |-> [k \in ThemeFields |-> None],
                additional_properties |-> [k \in ExtraKeys |-> None]]

NoRequest == [styles |-> << >>, brand_refs |-> << >>, component |-> "none"]

MapperInit ==
    [calls |-> 0, cache |-> FALSE, request |-> NoRequest, raised |-> FALSE,
     theme_tokens |-> ThemeTokens, used_styles |-> << >>, used_brands |-> << >>]

\* ------------------------------------------------- orchestrator REST router
NoResponse == [status |-> 0, session_id |-> 0, token |-> NoToken]

\* active_sessions = {}; next_uuid stands for the value uuid4() gives next
ApiInit ==
    [now |-> 0, next_uuid |-> 1, active_sessions |-> << >>,
     response |-> NoResponse]

\* ------------------------------------------------ design mapper, loader.py
\* The mappings file and the MappingsLoader after __init__ has loaded it.
\* Every content ever written to the file has a number (written gives its
\* kind: valid, unparseable JSON, or JSON that fails MappingsData), the
\* first one being the file the service starts with; mappings_data holds the
\* number of the content it was parsed from.  loads counts the calls of
\* load_mappings and returned is what the last one returned.  pc and the
\* seen fields follow one mapping request through its reads of the loader;
\* response is the last answer, with the content each part was taken from.
NoMappingResponse == [brands |-> 0, styles |-> 0, token_map |-> 0]

MappingsLoaderInit ==
    [file |-> [exists |-> TRUE, mtime |-> 1, content |-> 1],
     written |-> << "valid" >>,
     mappings_data |-> 1, last_modified_time |-> 1,
     loads |-> 0, returned |-> "none",
     cache |-> FALSE, requests |-> 0, pc |-> "idle",
     seen |-> NoMappingResponse, response |-> NoMappingResponse]

Init ==
    /\ conn = [c \in Conns |-> InitConn]
    /\ active_connections = {}
    /\ bus = [pc |-> "idle", snap |-> << >>, idx |-> 0, msg |-> "none",
              offered |-> [c \in Conns |-> 0]]
    /\ handled = [channel |-> "none", wellformed |-> FALSE, outcome |-> "none"]
    /\ offers = 0
    /\ redis = RedisClientInit
    /\ vad = SileroVADInit
    /\ stt = SttInit
    /\ trigger = TriggerInit
    /\ mapper = MapperInit
    /\ api = ApiInit
    /\ loader = MappingsLoaderInit

\* ----------------------------------------------------- websocket_endpoint
\* the token checks; on failure close 1008 and return, otherwise build the
\* ClientConnection and suspend in websocket.accept()
WebsocketEndpoint(c, session_id, token) ==
    /\ conn[c].ep = "idle"
    /\ UNCHANGED notWs
    /\ conn' = [conn EXCEPT ![c] =
         IF ~token.present
         THEN [@ EXCEPT !.ep = "rejected", !.session_id = session_id, !.token = token,
                        !.ws_close_code = WS_1008_POLICY_VIOLATION,
                        !.ws_close_reason = "Missing authentication token"]
         ELSE IF ~decode_jwt_token(token).ok
         THEN [@ EXCEPT !.ep = "rejected", !.session_id = session_id, !.token = token,
                        !.ws_close_code = WS_1008_POLICY_VIOLATION,
                        !.ws_close_reason = "Invalid or expired token"]
         ELSE IF decode_jwt_token(token).sub # session_id
         THEN [@ EXCEPT !.ep = "rejected", !.session_id = session_id, !.token = token,
                        !.ws_close_code = WS_1008_POLICY_VIOLATION,
                        !.ws_close_reason = "Token subject mismatch"]
         ELSE [@ EXCEPT !.ep = "accepting", !.session_id = session_id, !.token = token,
                        !.active = TRUE]]
    /\ UNCHANGED << active_connections, bus, handled, offers >>

\* accept() returns; manager.connect; the three tasks are created; the
\* endpoint suspends on the receiver task
EndpointAccepted(c) ==
    /\ conn[c].ep = "accepting"
    /\ UNCHANGED notWs
    /\ conn' = [conn EXCEPT ![c] =
         [@ EXCEPT !.ep = "serving", !.ws_accepted = TRUE,
                   !.client_state = "CONNECTED",
                   !.sender_task = "wait", !.receiver_task = "recv",
                   !.heartbeat_task = "sleep"]]
    /\ active_connections' = active_connections \cup {c}
    /\ UNCHANGED << bus, handled, offers >>

\* a finally block that closes the connection and leaves it in the set
EndpointCleanupKeeps(c) ==
    /\ conn[c].ep = "serving"
    /\ UNCHANGED notWs
    /\ conn[c].receiver_task = "done"
    /\ conn' = [conn EXCEPT ![c] =
         [Close(@, WS_1000_NORMAL_CLOSURE, "none", "endpoint")
            EXCEPT !.ep = IF conn[c].active THEN "inclose" ELSE "done"]]
    /\ UNCHANGED << active_connections, bus, handled, offers >>

\* the receiver task has finished: the finally block calls manager.disconnect
EndpointCleanup(c) ==
    /\ conn[c].ep = "serving"
    /\ UNCHANGED notWs
    /\ conn[c].receiver_task = "done"
    /\ active_connections' = active_connections \ {c}
    /\ conn' = [conn EXCEPT ![c] =
         [Close(@, WS_1000_NORMAL_CLOSURE, "none", "endpoint")
            EXCEPT !.ep = IF conn[c].active THEN "inclose" ELSE "done"]]
    /\ UNCHANGED << bus, handled, offers >>

\* ------------------------------------------------- _websocket_sender_task
\* a get that leaves the string on the queue
QueueGetPeek(q) == q

\* asyncio.Queue.get on a non-empty queue: what remains queued
QueueGet(q) == Tail(q)

\* outgoing_queue.get() returns a message; the task checks active and the
\* client state and suspends in websocket.send_text, or leaves the loop
SenderGet(c) ==
    /\ conn[c].sender_task = "wait"
    /\ UNCHANGED notWs
    /\ conn[c].outgoing_queue # << >>
    /\ conn' = [conn EXCEPT ![c] =
         IF @.active /\ @.client_state = "CONNECTED"
         THEN [@ EXCEPT !.outgoing_queue = QueueGet(@),
                        !.message_json_str = Head(conn[c].outgoing_queue),
                        !.sender_task = "sending"]
         ELSE [@ EXCEPT !.outgoing_queue = QueueGet(@),
                        !.sender_task = "done"]]
    /\ UNCHANGED << active_connections, bus, handled, offers >>

\* send_text returned: the message is on the socket; back to the loop test
SenderSendOk(c) ==
    /\ conn[c].sender_task = "sending"
    /\ UNCHANGED notWs
    /\ conn' = [conn EXCEPT ![c] =
         [@ EXCEPT !.delivered = Append(@, conn[c].message_json_str),
                   !.message_json_str = NoMsg,
                   !.sender_task = IF conn[c].active THEN "wait" ELSE "done"]]
    /\ UNCHANGED << active_connections, bus, handled, offers >>

\* send_text raised (WebSocketDisconnect or any other exception): the
\* handler awaits manager.disconnect(client)
SenderSendFail(c) ==
    /\ conn[c].sender_task = "sending"
    /\ UNCHANGED notWs
    /\ active_connections' = active_connections \ {c}
    /\ conn' = [conn EXCEPT ![c] =
         [Close(@, WS_1000_NORMAL_CLOSURE, "none", "sender")
            EXCEPT !.message_json_str = NoMsg]]
    /\ UNCHANGED << bus, handled, offers >>

\* CancelledError reaches the sender: except asyncio.CancelledError, finally
SenderCancelled(c) ==
    /\ conn[c].sender_task = "cancelled"
    /\ UNCHANGED notWs
    /\ conn' = [conn EXCEPT ![c] =
         [@ EXCEPT !.sender_task = "done", !.message_json_str = NoMsg]]
    /\ UNCHANGED << active_connections, bus, handled, offers >>

\* ----------------------------------------------- _websocket_receiver_task
ClientKinds ==
    {"audio_chunk", "edit_component", "control_session", "ping_custom", "unknown"}

\* receive_text returned a frame of the given kind.  audio_chunk opens the
\* STT proxy socket when there is none (sttOk: websockets.connect succeeded;
\* a failure is logged); the three acknowledged kinds call send_json_str;
\* other kinds are logged.
ReceiverMessage(c, kind, sttOk) ==
    /\ conn[c].receiver_task = "recv"
    /\ UNCHANGED notWs
    /\ conn[c].client_state = "CONNECTED"
    /\ IF kind = "audio_chunk"
       THEN /\ conn[c].stt_ws = "none" /\ sttOk
            /\ conn' = [conn EXCEPT ![c].stt_ws = "open"]
            /\ UNCHANGED offers
       ELSE IF kind \in {"edit_component", "control_session", "ping_custom"}
       THEN /\ offers < MaxMsgs
            /\ conn' = [conn EXCEPT ![c] = send_json_str(@, "receiver")]
            /\ offers' = offers + 1
       ELSE UNCHANGED << conn, offers >>
    /\ UNCHANGED << active_connections, bus, handled >>

\* receive_text raised WebSocketDisconnect (the client went away; Starlette
\* has set client_state to DISCONNECTED): manager.disconnect(client)
ReceiverDisconnect(c) ==
    /\ conn[c].receiver_task = "recv"
    /\ UNCHANGED notWs
    /\ conn[c].client_state = "CONNECTED"
    /\ active_connections' = active_connections \ {c}
    /\ conn' = [conn EXCEPT ![c] =
         [Close(@, WS_1000_NORMAL_CLOSURE, "none", "receiver")
            EXCEPT !.client_state = "DISCONNECTED"]]
    /\ UNCHANGED << bus, handled, offers >>

\* receive_text raised another exception (for instance on a binary frame):
\* manager.disconnect(client)
ReceiverError(c) ==
    /\ conn[c].receiver_task = "recv"
    /\ UNCHANGED notWs
    /\ conn[c].client_state = "CONNECTED"
    /\ disconnect(c, "receiver")
    /\ UNCHANGED << bus, handled, offers >>

\* CancelledError reaches the receiver
ReceiverCancelled(c) ==
    /\ conn[c].receiver_task = "cancelled"
    /\ UNCHANGED notWs
    /\ conn' = [conn EXCEPT ![c].receiver_task = "done"]
    /\ UNCHANGED << active_connections, bus, handled, offers >>

\* ---------------------------------------------- _websocket_heartbeat_task
\* the sleep ends (or is cancelled): the loop goes on while the connection
\* is active and connected
HeartbeatTask(c) ==
    /\ conn[c].heartbeat_task \in {"sleep", "cancelled"}
    /\ UNCHANGED notWs
    /\ conn' = [conn EXCEPT ![c].heartbeat_task =
         IF @ = "cancelled" THEN "done"
         ELSE IF conn[c].active /\ conn[c].client_state = "CONNECTED"
         THEN "sleep" ELSE "done"]
    /\ UNCHANGED << active_connections, bus, handled, offers >>

\* ------------------------------------------- ClientConnection.close, rest
\* where close goes after the client socket
AfterWebsocketClose(cn) ==
    IF cn.stt_ws # "none" THEN "sttclose" ELSE "returned"

\* asyncio.gather over the three tasks returns once all of them are done
CloseGathered(c) ==
    /\ conn[c].closePc = "gather"
    /\ UNCHANGED notWs
    /\ conn[c].sender_task = "done"
    /\ conn[c].receiver_task = "done"
    /\ conn[c].heartbeat_task = "done"
    /\ conn' = [conn EXCEPT ![c] =
         [@ EXCEPT !.closePc = IF conn[c].client_state # "DISCONNECTED"
                               THEN "wsclose" ELSE AfterWebsocketClose(conn[c]),
                   !.ep = IF @ = "inclose" /\ conn[c].client_state = "DISCONNECTED"
                             /\ conn[c].stt_ws = "none"
                          THEN "done" ELSE @]]
    /\ UNCHANGED << active_connections, bus, handled, offers >>

\* websocket.close(code, reason) returned
CloseWebsocketClosed(c) ==
    /\ conn[c].closePc = "wsclose"
    /\ UNCHANGED notWs
    /\ conn' = [conn EXCEPT ![c] =
         [@ EXCEPT !.ws_close_code = conn[c].close_code,
                   !.ws_close_reason = conn[c].close_reason,
                   !.ws_close_calls = @ + 1,
                   !.closePc = AfterWebsocketClose(conn[c]),
                   !.ep = IF @ = "inclose" /\ conn[c].stt_ws = "none"
                          THEN "done" ELSE @]]
    /\ UNCHANGED << active_connections, bus, handled, offers >>

\* stt_ws.close() returned
CloseSttClosed(c) ==
    /\ conn[c].closePc = "sttclose"
    /\ UNCHANGED notWs
    /\ conn' = [conn EXCEPT ![c] =
         [@ EXCEPT !.stt_ws = "closed",
                   !.stt_close_calls = @ + 1,
                   !.closePc = "returned",
                   !.ep = IF @ = "inclose" THEN "done" ELSE @]]
    /\ UNCHANGED << active_connections, bus, handled, offers >>

\* ------------------------------------------ global_redis_message_handler
\* the WS message class chosen for a channel: REDIS_SUBSCRIBE_CHANNELS[0..3]
\* are mapped, every other channel takes the else branch
KindOfChannel(channel) ==
    IF channel = REDIS_SUBSCRIBE_CHANNELS[1] THEN "transcript"
    ELSE IF channel = REDIS_SUBSCRIBE_CHANNELS[2] THEN "intent"
    ELSE IF channel = REDIS_SUBSCRIBE_CHANNELS[3] THEN "component"
    ELSE IF channel = REDIS_SUBSCRIBE_CHANNELS[4] THEN "insight"
    ELSE "unmapped"

\* list(self.active_connections): the members in some iteration order
Orderings(S) ==
    { s \in [1..Cardinality(S) -> S] : \A i, j \in 1..Cardinality(S) : s[i] = s[j] => i = j }

Range(f) == { f[i] : i \in DOMAIN f }

\* iterating the live set: the snapshot followed by the connections
\* registered since
connections_to_send_live ==
    bus.snap \o (CHOOSE s \in Orderings(active_connections \ Range(bus.snap)) : TRUE)

\* the connections the running pass iterates over
connections_to_send == bus.snap

\* ConnectionManager.broadcast, the for loop from position i on: it runs
\* without suspending until the list is exhausted or send_json_str suspends
\* inside close (the 4th drop of a client)
RECURSIVE BroadcastLoop(_, _, _, _)
BroadcastLoop(targets, i, cs, off) ==
    IF i > Len(targets)
    THEN [conn |-> cs, offered |-> off, idx |-> i, pc |-> "idle"]
    ELSE LET c == targets[i] IN
         IF ~cs[c].active
         THEN BroadcastLoop(targets, i + 1, cs, off)
         ELSE LET after == send_json_str(cs[c], "bus")
                  cs2 == [cs EXCEPT ![c] = after]
                  off2 == [off EXCEPT ![c] = @ + 1]
              IN IF ~after.active
                 THEN [conn |-> cs2, offered |-> off2, idx |-> i, pc |-> "inclose"]
                 ELSE BroadcastLoop(targets, i + 1, cs2, off2)

\* one message from the subscriber loop: decode, parse, validate, wrap with
\* the kind of the channel, broadcast.  order is the iteration order of the
\* snapshot taken by broadcast.  A message counts as offered when the
\* snapshot holds an active connection.
GlobalRedisMessageHandler(channel, wellformed, order) ==
    /\ bus.pc = "idle"
    /\ UNCHANGED notWs
    /\ offers < MaxMsgs
    /\ IF ~wellformed \/ KindOfChannel(channel) = "unmapped"
       THEN /\ handled' = [channel |-> channel, wellformed |-> wellformed,
                           outcome |-> IF wellformed THEN "unmapped" ELSE "invalid"]
            /\ UNCHANGED << conn, bus, offers >>
       ELSE LET r == BroadcastLoop(order, 1, conn, [c \in Conns |-> 0])
            IN /\ handled' = [channel |-> channel, wellformed |-> wellformed,
                              outcome |-> "broadcast"]
               /\ conn' = r.conn
               /\ bus' = [pc |-> r.pc, snap |-> order, idx |-> r.idx,
                          msg |-> KindOfChannel(channel), offered |-> r.offered]
               /\ offers' = IF \E c \in Conns : r.offered[c] > 0
                            THEN offers + 1 ELSE offers
    /\ UNCHANGED active_connections

\* the close started by send_json_str has returned: the for loop goes on
BroadcastResume ==
    /\ bus.pc = "inclose"
    /\ UNCHANGED notWs
    /\ conn[bus.snap[bus.idx]].closePc = "returned"
    /\ LET r == BroadcastLoop(connections_to_send, bus.idx + 1, conn, bus.offered)
       IN /\ conn' = r.conn
          /\ bus' = [bus EXCEPT !.pc = r.pc, !.idx = r.idx, !.offered = r.offered]
    /\ UNCHANGED << active_connections, handled, offers >>

\* ------------------------------------------------------------ the system
\* every step of one connection: its endpoint, its three tasks, its close
ConnStep(c, sessions, tokens) ==
    \/ \E s \in sessions, t \in tokens : WebsocketEndpoint(c, s, t)
    \/ EndpointAccepted(c)
    \/ EndpointCleanup(c)
    \/ SenderGet(c)
    \/ SenderSendOk(c)
    \/ SenderSendFail(c)
    \/ SenderCancelled(c)
    \/ \E k \in ClientKinds, ok \in BOOLEAN : ReceiverMessage(c, k, ok)
    \/ ReceiverDisconnect(c)
    \/ ReceiverError(c)
    \/ ReceiverCancelled(c)
    \/ HeartbeatTask(c)
    \/ CloseGathered(c)
    \/ CloseWebsocketClosed(c)
    \/ CloseSttClosed(c)

\* every step of the subscriber task
BusStep(channels, wellformedness) ==
    \/ \E ch \in channels, wf \in wellformedness, order \in Orderings(active_connections) :
          GlobalRedisMessageHandler(ch, wf, order)
    \/ BroadcastResume

\* one client over its whole lifetime, every input
Next == ConnStep("c1", Sessions, Tokens) \/ BusStep(Channels, BOOLEAN)

Spec == Init /\ [][Next]_vars

\* ---------------------------------------------------------------- fan-out
\* A second specification for what needs two clients.  It starts where the
\* first client "c1" has been admitted for session "s1" and does not read:
\* its sender is suspended in send_text with the first string, the queue is
\* full, and q0 further strings have been dropped; every string came from
\* the bus on channel transcripts.  Client "c2" has not connected yet.  The
\* bus carries well-formed transcripts, and a client connects without a
\* token or with a valid token for session "s1".
ValidToken(session_id) ==
    [present |-> TRUE, sig |-> TRUE, expired |-> FALSE, sub |-> session_id]

StalledConn(q0) ==
    [InitConn EXCEPT
        !.ep = "serving", !.session_id = "s1", !.token = ValidToken("s1"),
        !.ws_accepted = TRUE, !.client_state = "CONNECTED", !.active = TRUE,
        !.sender_task = "sending", !.receiver_task = "recv",
        !.heartbeat_task = "sleep",
        !.message_json_str = 1,
        !.outgoing_queue = [i \in 1..MaxQueue |-> i + 1],
        !.accepted = [i \in 1..(MaxQueue + 1) |-> i],
        !.queue_full_count = q0]

StalledBus ==
    [pc |-> "idle", snap |-> << "c1" >>, idx |-> 2, msg |-> "transcript",
     offered |-> [c \in Conns |-> IF c = "c1" THEN 1 ELSE 0]]

InitFanout ==
    \E q0 \in {QueueFullLimit - 1, QueueFullLimit} :
        /\ conn = [c \in Conns |-> IF c = "c1" THEN StalledConn(q0) ELSE InitConn]
        /\ active_connections = {"c1"}
        /\ bus = StalledBus
        /\ handled = [channel |-> "transcripts", wellformed |-> TRUE,
                      outcome |-> "broadcast"]
        /\ offers = MaxMsgs - FanoutMsgs
        /\ redis = RedisClientInit
        /\ vad = SileroVADInit
        /\ stt = SttInit
        /\ trigger = TriggerInit
        /\ mapper = MapperInit
        /\ api = ApiInit
        /\ loader = MappingsLoaderInit

NextFanout ==
    \/ \E c \in Conns : ConnStep(c, Sessions, {NoToken, ValidToken("s1")})
    \/ BusStep({"transcripts"}, {TRUE})

SpecFanout == InitFanout /\ [][NextFanout]_vars

\* the service configured with WEBSOCKET_MAX_QUEUE_SIZE = 0
InitZeroQueue ==
    /\ conn = [c \in Conns |-> [InitConn EXCEPT !.maxsize = 0]]
    /\ active_connections = {}
    /\ bus = [pc |-> "idle", snap |-> << >>, idx |-> 0, msg |-> "none",
              offered |-> [c \in Conns |-> 0]]
    /\ handled = [channel |-> "none", wellformed |-> FALSE, outcome |-> "none"]
    /\ offers = MaxMsgs - FanoutMsgs
    /\ redis = RedisClientInit
    /\ vad = SileroVADInit
    /\ stt = SttInit
    /\ trigger = TriggerInit
    /\ mapper = MapperInit
    /\ api = ApiInit
    /\ loader = MappingsLoaderInit

\* one client, and the messages that remain to be offered.  No queue is ever
\* full, so close is begun only by the sender or the receiver task and stays
\* in its gather: the steps after the gather and the resumption of a
\* broadcast that closed a connection are never enabled and are left out.
NextZeroQueue ==
    \/ \E s \in Sessions, t \in {NoToken, ValidToken("s1")} :
          WebsocketEndpoint("c1", s, t)
    \/ EndpointAccepted("c1")
    \/ EndpointCleanup("c1")
    \/ SenderGet("c1")
    \/ SenderSendOk("c1")
    \/ SenderSendFail("c1")
    \/ SenderCancelled("c1")
    \/ \E k \in ClientKinds, ok \in BOOLEAN : ReceiverMessage("c1", k, ok)
    \/ ReceiverDisconnect("c1")
    \/ ReceiverError("c1")
    \/ ReceiverCancelled("c1")
    \/ HeartbeatTask("c1")
    \/ \E order \in Orderings(active_connections) :
          GlobalRedisMessageHandler("transcripts", TRUE, order)

SpecZeroQueue == InitZeroQueue /\ [][NextZeroQueue]_vars

\* fairness of the event loop: a task that is ready runs, a cancellation is
\* delivered, a socket operation returns
Fairness ==
    /\ \A c \in Conns : WF_vars(EndpointAccepted(c))
    /\ \A c \in Conns : WF_vars(EndpointCleanup(c))
    /\ \A c \in Conns : WF_vars(SenderSendOk(c) \/ SenderSendFail(c))
    /\ \A c \in Conns : WF_vars(SenderCancelled(c))
    /\ \A c \in Conns : WF_vars(ReceiverCancelled(c))
    /\ \A c \in Conns : WF_vars(HeartbeatTask(c))
    /\ \A c \in Conns : WF_vars(CloseGathered(c))
    /\ \A c \in Conns : WF_vars(CloseWebsocketClosed(c))
    /\ \A c \in Conns : WF_vars(CloseSttClosed(c))
    /\ WF_vars(BroadcastResume)

FairSpec == Spec /\ Fairness

\* the stalled client of the fan-out on its own, from the same start to its
\* removal: it was admitted before the first state, so the two admission
\* steps are never enabled and are left out
NextRemoval ==
    \/ EndpointCleanup("c1")
    \/ SenderGet("c1")
    \/ SenderSendOk("c1")
    \/ SenderSendFail("c1")
    \/ SenderCancelled("c1")
    \/ \E k \in ClientKinds, ok \in BOOLEAN : ReceiverMessage("c1", k, ok)
    \/ ReceiverDisconnect("c1")
    \/ ReceiverError("c1")
    \/ ReceiverCancelled("c1")
    \/ HeartbeatTask("c1")
    \/ CloseGathered("c1")
    \/ CloseWebsocketClosed("c1")
    \/ CloseSttClosed("c1")
    \/ BusStep({"transcripts"}, {TRUE})

FairSpecRemoval == InitFanout /\ [][NextRemoval]_vars /\ Fairness

\* ================================================= RedisClient subscriber
notRedis == << conn, active_connections, bus, handled, offers, vad, stt,
              trigger, mapper, api, loader >>

SubscriberDone(r) == r.pc \in {"done", "cancelled", "failed"}

\* a loop that never looks at the stop event
stop_event_is_set_never(r) == FALSE

\* self._stop_event.is_set()
stop_event_is_set(r) == r.stop_event

\* RedisClient.connect: ping a connection held as connected; when that
\* fails, or without one, open a fresh connection, which succeeds exactly
\* when the broker is reachable
connect(r) ==
    IF r.is_connected /\ r.redis_connection /\ r.connLive
    THEN r
    ELSE IF r.up
         THEN [r EXCEPT !.redis_connection = TRUE, !.connLive = TRUE,
                        !.is_connected = TRUE]
         ELSE [r EXCEPT !.redis_connection = FALSE, !.connLive = FALSE,
                        !.is_connected = FALSE]

\* closing the pub/sub client drops what was buffered for the subscription
ClosePubsub(r) ==
    [r EXCEPT !.pubsub_client = FALSE, !.pubsubLive = FALSE,
              !.inbox = << >>,
              !.lost = @ \cup { r.inbox[i] : i \in 1..Len(r.inbox) }]

\* an error handler that keeps the pub/sub client
TransportErrorKeepPubsub(r) ==
    [r EXCEPT !.redis_connection = FALSE, !.connLive = FALSE,
              !.is_connected = FALSE, !.pc = "pause"]

\* except (ConnectionError, TimeoutError): close the pub/sub client and the
\* connection, then sleep(1)
TransportError(r) ==
    [ClosePubsub(r) EXCEPT !.redis_connection = FALSE, !.connLive = FALSE,
                           !.is_connected = FALSE, !.pc = "pause"]

\* subscribe when there is no pub/sub client
Subscribe(r) ==
    IF r.pubsub_client THEN r
    ELSE [r EXCEPT !.pubsub_client = TRUE, !.pubsubLive = r.connLive,
                   !.inbox = << >>,
                   !.subs = IF r.connLive THEN @ + 1 ELSE @]

\* a handler exception that ends the task
HandlerRaisedUncaught(r) ==
    [r EXCEPT !.pc = "failed", !.inhand = 0, !.outcome = "raised"]

\* except Exception as e_handler: log, go on with the loop
HandlerRaised(r) ==
    [r EXCEPT !.pc = "loop", !.inhand = 0, !.outcome = "raised"]

\* while not self._stop_event.is_set()
SubLoopCheck ==
    /\ redis.pc = "loop"
    /\ UNCHANGED notRedis
    /\ redis' = IF stop_event_is_set(redis)
                THEN [redis EXCEPT !.pc = "done", !.observed = TRUE]
                ELSE [redis EXCEPT !.pc = "connect"]

\* if not await self.connect(): wait for the stop event, five seconds at most
SubConnect ==
    /\ redis.pc = "connect"
    /\ UNCHANGED notRedis
    /\ redis' = [connect(redis) EXCEPT
                    !.pc = IF connect(redis).is_connected THEN "listen"
                           ELSE "retry_wait"]

SubRetryTimeout ==
    /\ redis.pc = "retry_wait"
    /\ ~ redis.stop_event
    /\ UNCHANGED notRedis
    /\ redis' = [redis EXCEPT !.pc = "loop"]

SubRetryStopped ==
    /\ redis.pc = "retry_wait"
    /\ redis.stop_event
    /\ UNCHANGED notRedis
    /\ redis' = [redis EXCEPT !.pc = "done", !.observed = TRUE]

\* the try block: subscribe if needed, get_message, then either call the
\* handler or ping the connection
SubListen ==
    /\ redis.pc = "listen"
    /\ UNCHANGED notRedis
    /\ LET r == Subscribe(redis) IN
       redis' =
         IF ~ r.pubsubLive THEN TransportError(r)
         ELSE IF r.inbox # << >>
              THEN [r EXCEPT !.pc = "handler", !.inhand = Head(r.inbox),
                             !.inbox = Tail(r.inbox),
                             !.passed = Append(@, Head(r.inbox))]
              ELSE IF r.connLive THEN [r EXCEPT !.pc = "loop"]
                   ELSE TransportError(r)

\* except Exception as e_loop: sleep(5)
SubUnexpected ==
    /\ redis.pc = "listen"
    /\ redis.faults < MaxFaults
    /\ UNCHANGED notRedis
    /\ redis' = [redis EXCEPT !.pc = "pause", !.faults = @ + 1]

SubHandlerReturn(raised) ==
    /\ redis.pc = "handler"
    /\ UNCHANGED notRedis
    /\ redis' = IF raised THEN HandlerRaised(redis)
                ELSE [redis EXCEPT !.pc = "loop", !.inhand = 0,
                                   !.outcome = "returned"]

SubPauseOver ==
    /\ redis.pc = "pause"
    /\ UNCHANGED notRedis
    /\ redis' = [redis EXCEPT !.pc = "loop"]

\* --- the broker
\* an outage breaks both sockets; what was buffered on them is gone
BrokerDown ==
    /\ redis.up
    /\ redis.faults < MaxFaults
    /\ UNCHANGED notRedis
    /\ redis' = [redis EXCEPT !.up = FALSE, !.connLive = FALSE,
                              !.pubsubLive = FALSE, !.faults = @ + 1,
                              !.inbox = << >>,
                              !.lost = @ \cup { redis.inbox[i] : i \in 1..Len(redis.inbox) }]

BrokerUp ==
    /\ ~ redis.up
    /\ UNCHANGED notRedis
    /\ redis' = [redis EXCEPT !.up = TRUE]

\* a message published on a subscribed channel reaches the subscriptions
\* that exist at that moment
Publish ==
    /\ redis.pub < MaxPub
    /\ redis.up
    /\ UNCHANGED notRedis
    /\ redis' = [redis EXCEPT
                    !.pub = @ + 1,
                    !.inbox = IF redis.pubsub_client /\ redis.pubsubLive
                              THEN Append(@, redis.pub + 1) ELSE @]

\* --- shutdown
\* stop_subscriber_task up to wait_for(self._subscriber_task, 10.0)
StopSubscriberTask ==
    /\ redis.sd = "none"
    /\ redis.pc # "boot"
    /\ UNCHANGED notRedis
    /\ redis' = IF redis.subscriber_task /\ ~ SubscriberDone(redis)
                THEN [redis EXCEPT !.stop_event = TRUE, !.sd = "stop_wait"]
                ELSE [ClosePubsub(redis) EXCEPT !.sd = "stopped"]

\* the task has ended: drop it and close the pub/sub client
StopWaitDone ==
    /\ redis.sd = "stop_wait"
    /\ SubscriberDone(redis)
    /\ UNCHANGED notRedis
    /\ redis' = [ClosePubsub(redis) EXCEPT !.subscriber_task = FALSE,
                                           !.sd = "stopped"]

\* wait_for times out and cancels the task where it is suspended
WaitTimeout ==
    /\ redis.sd \in {"stop_wait", "close_wait"}
    /\ ~ SubscriberDone(redis)
    /\ UNCHANGED notRedis
    /\ redis' = [redis EXCEPT !.pc = "cancelled", !.inhand = 0]

\* the rest of close: pub/sub client, connection, flags
CloseResources(r) ==
    [ClosePubsub(r) EXCEPT !.redis_connection = FALSE, !.connLive = FALSE,
                           !.is_connected = FALSE, !.stop_event = FALSE,
                           !.sd = "closed"]

\* RedisClient.close up to wait_for(self._subscriber_task, 5.0)
RedisClose ==
    /\ redis.sd \in {"none", "stopped"}
    /\ redis.pc # "boot"
    /\ UNCHANGED notRedis
    /\ redis' = IF redis.subscriber_task /\ ~ SubscriberDone(redis)
                THEN [redis EXCEPT !.stop_event = TRUE, !.sd = "close_wait"]
                ELSE CloseResources(redis)

CloseWaitDone ==
    /\ redis.sd = "close_wait"
    /\ SubscriberDone(redis)
    /\ UNCHANGED notRedis
    /\ redis' = [CloseResources(redis) EXCEPT !.subscriber_task = FALSE]

NextRedis ==
    \/ SubLoopCheck
    \/ SubConnect
    \/ SubRetryTimeout
    \/ SubRetryStopped
    \/ SubListen
    \/ SubUnexpected
    \/ \E raised \in BOOLEAN : SubHandlerReturn(raised)
    \/ SubPauseOver
    \/ BrokerDown
    \/ BrokerUp
    \/ Publish
    \/ StopSubscriberTask
    \/ StopWaitDone
    \/ WaitTimeout
    \/ RedisClose
    \/ CloseWaitDone

SpecRedis == Init /\ [][NextRedis]_vars

\* the subscriber task and the shutdown calls run when they can; a timeout,
\* the broker and the publishers are not forced
FairnessRedis ==
    /\ WF_vars(SubLoopCheck)
    /\ WF_vars(SubConnect)
    /\ WF_vars(SubRetryTimeout)
    /\ WF_vars(SubRetryStopped)
    /\ WF_vars(SubListen)
    /\ WF_vars(\E raised \in BOOLEAN : SubHandlerReturn(raised))
    /\ WF_vars(SubPauseOver)
    /\ WF_vars(StopWaitDone)
    /\ WF_vars(CloseWaitDone)

FairSpecRedis == SpecRedis /\ FairnessRedis

\* --------------------------------- main.py startup, start_subscriber again
\* RedisClient.start_subscriber: with a task that is not done the stop
\* event is set, then it is cleared in the same call, and a new task is
\* created over the same client; the loop that was running stays where it
\* is suspended
start_subscriber(r) ==
    [r EXCEPT !.stop_event = FALSE, !.subscriber_task = TRUE, !.pc = "loop",
              !.inhand = 0,
              !.old = IF r.subscriber_task /\ ~ SubscriberDone(r)
                      THEN "superseded" ELSE @]

\* startup_event: connect, and only when that succeeded start the
\* subscriber for REDIS_SUBSCRIBE_CHANNELS
StartupEvent ==
    /\ redis.pc = "boot"
    /\ UNCHANGED notRedis
    /\ redis' = LET r == connect(redis) IN
                IF r.is_connected THEN start_subscriber(r)
                ELSE [r EXCEPT !.pc = "none"]

\* start_subscriber is called while the subscriber loop is running
RestartSubscriber ==
    /\ redis.subscriber_task
    /\ redis.pc \notin {"boot", "none"}
    /\ ~ SubscriberDone(redis)
    /\ redis.sd = "none"
    /\ redis.old = "none"
    /\ UNCHANGED notRedis
    /\ redis' = start_subscriber(redis)

\* the loop that was running comes back to "while not
\* self._stop_event.is_set()"
OldLoopCheck ==
    /\ redis.old \in {"superseded", "continued"}
    /\ UNCHANGED notRedis
    /\ redis' = [redis EXCEPT
                    !.old = IF stop_event_is_set(redis) THEN "stopped"
                            ELSE "continued"]

\* the loop that was running goes on with get_message on the pub/sub
\* client it shares with the new loop, and calls the handler
OldLoopListen ==
    /\ redis.old = "continued"
    /\ redis.pubsub_client
    /\ redis.pubsubLive
    /\ redis.inbox # << >>
    /\ UNCHANGED notRedis
    /\ redis' = [redis EXCEPT !.inbox = Tail(@),
                              !.passed = Append(@, Head(redis.inbox))]

InitStartup ==
    /\ redis \in { RedisClientBoot(up) : up \in BOOLEAN }
    /\ conn = [c \in Conns |-> InitConn]
    /\ active_connections = {}
    /\ bus = [pc |-> "idle", snap |-> << >>, idx |-> 0, msg |-> "none",
              offered |-> [c \in Conns |-> 0]]
    /\ handled = [channel |-> "none", wellformed |-> FALSE, outcome |-> "none"]
    /\ offers = 0
    /\ vad = SileroVADInit
    /\ stt = SttInit
    /\ trigger = TriggerInit
    /\ mapper = MapperInit
    /\ api = ApiInit
    /\ loader = MappingsLoaderInit

NextStartup ==
    \/ StartupEvent
    \/ RestartSubscriber
    \/ OldLoopCheck
    \/ OldLoopListen
    \/ NextRedis

FairSpecStartup ==
    /\ InitStartup
    /\ [][NextStartup]_vars
    /\ FairnessRedis
    /\ WF_vars(StartupEvent)
    /\ WF_vars(OldLoopCheck)

\* ================================================================ SileroVAD
notVad == << conn, active_connections, bus, handled, offers, redis, stt,
            trigger, mapper, api, loader >>

\* (self.window_size_samples / self.sample_rate) * 1000.0
vad_window_duration_ms == (VAD_WINDOW_SIZE_SAMPLES * 1000) \div AUDIO_SAMPLE_RATE

\* (len(speech_segment_bytes) / (self.sample_rate * 2)) * 1000.0 for a
\* segment of that many windows of 16-bit samples
segment_duration_ms(frames) ==
    (frames * VAD_WINDOW_SIZE_SAMPLES * 2 * 1000) \div (AUDIO_SAMPLE_RATE * 2)

\* a segmenter without the minimum length
long_enough_always(frames) == TRUE

\* segment_duration_ms >= self.min_speech_duration_ms
long_enough(frames) == segment_duration_ms(frames) >= min_speech_duration_ms

\* yield the buffered frames or drop them, then clear the buffer
Finalize(v, at) ==
    [v EXCEPT
        !.emitted = IF long_enough(v.frames)
                    THEN Append(@, [frames |-> v.frames, speech |-> v.speech,
                                    at |-> at,
                                    first |-> v.first, last |-> v.last])
                    ELSE @,
        !.dropped = IF long_enough(v.frames) THEN @ ELSE @ + 1,
        !.frames = 0, !.speech = 0, !.is_speaking = FALSE,
        !.first = 0, !.last = 0,
        !.silence_counter_ms = 0]

\* a segmenter on which speech does not reset the silence counter
SpeechWindowKeepsSilence(v) ==
    [v EXCEPT !.is_speaking = TRUE,
              !.frames = IF v.is_speaking THEN @ + 1 ELSE 1,
              !.speech = IF v.is_speaking THEN @ + 1 ELSE 1,
              !.first = IF v.is_speaking THEN @ ELSE v.fed + 1,
              !.last = v.fed + 1]

\* one window on which the model scores speech_prob >= self.vad_threshold
SpeechWindow(v) ==
    [v EXCEPT !.is_speaking = TRUE,
              !.frames = IF v.is_speaking THEN @ + 1 ELSE 1,
              !.speech = IF v.is_speaking THEN @ + 1 ELSE 1,
              !.first = IF v.is_speaking THEN @ ELSE v.fed + 1,
              !.last = v.fed + 1,
              !.silence_counter_ms = 0]

\* one window below the threshold
SilenceWindow(v) ==
    IF ~ v.is_speaking THEN v
    ELSE LET w == [v EXCEPT !.frames = @ + 1, !.last = v.fed + 1,
                            !.silence_counter_ms = @ + vad_window_duration_ms]
         IN IF w.silence_counter_ms >= VAD_MIN_SILENCE_DURATION_MS
            THEN Finalize(w, "silence")
            ELSE w

\* the window is scored against self.vad_threshold and counted
Scored(v, isSpeech) ==
    [(IF isSpeech THEN SpeechWindow(v) ELSE SilenceWindow(v))
        EXCEPT !.fed = @ + 1,
               !.silent_since_speech = IF isSpeech THEN 0 ELSE @ + 1]

\* the body of the while loop for one analysis window
VadWindow(isSpeech) ==
    /\ ~ vad.ended
    /\ vad.fed < MaxWindows
    /\ UNCHANGED notVad
    /\ vad' = Scored(vad, isSpeech)

\* the tensor is None or the inference raises: the window is skipped
VadSkipWindow ==
    /\ ~ vad.ended
    /\ vad.fed < MaxWindows
    /\ UNCHANGED notVad
    /\ vad' = [vad EXCEPT !.fed = @ + 1]

\* the input stream ends: flush what is buffered, reset_states
VadEndOfStream ==
    /\ ~ vad.ended
    /\ UNCHANGED notVad
    /\ vad' = [(IF vad.is_speaking /\ vad.frames > 0
                THEN Finalize(vad, "flush")
                ELSE [vad EXCEPT !.frames = 0, !.speech = 0,
                                 !.is_speaking = FALSE,
                                 !.first = 0, !.last = 0,
                                 !.silence_counter_ms = 0])
                  EXCEPT !.ended = TRUE]

NextVad ==
    \/ \E isSpeech \in BOOLEAN : VadWindow(isSpeech)
    \/ VadSkipWindow
    \/ VadEndOfStream

SpecVad == Init /\ [][NextVad]_vars

\* ---------------------------------------------- vad.py, the byte stream
\* The same loop with the incoming chunks and _audio_buffer spelled out.
\* A byte is named by its chunk and its offset in it; a byte string is a
\* sequence of runs [chunk, lo, hi) of consecutive bytes of one chunk.
WindowBytes == VAD_WINDOW_SIZE_SAMPLES * 2

ChunkLens == {0, WindowBytes - 1, WindowBytes, WindowBytes + 1}

\* len(audio_bytes)
RECURSIVE RunBytes(_)
RunBytes(runs) ==
    IF runs = << >> THEN 0
    ELSE (Head(runs).hi - Head(runs).lo) + RunBytes(Tail(runs))

\* audio_bytes[:n]
RECURSIVE TakeBytes(_, _)
TakeBytes(runs, n) ==
    IF n <= 0 \/ runs = << >> THEN << >>
    ELSE LET r == Head(runs)
             size == r.hi - r.lo
         IN IF size <= n
            THEN << r >> \o TakeBytes(Tail(runs), n - size)
            ELSE << [r EXCEPT !.hi = r.lo + n] >>

\* del audio_bytes[:n]
RECURSIVE DropBytes(_, _)
DropBytes(runs, n) ==
    IF n <= 0 \/ runs = << >> THEN runs
    ELSE LET r == Head(runs)
             size == r.hi - r.lo
         IN IF size <= n
            THEN DropBytes(Tail(runs), n - size)
            ELSE << [r EXCEPT !.lo = r.lo + n] >> \o Tail(runs)

\* the int16 samples of the byte string, its last byte trimmed when the
\* length is odd; None for an empty string
_bytes_to_tensor(audio_bytes) ==
    LET even == IF RunBytes(audio_bytes) % 2 # 0
                THEN TakeBytes(audio_bytes, RunBytes(audio_bytes) - 1)
                ELSE audio_bytes
    IN IF RunBytes(even) = 0 THEN None ELSE [samples |-> even]

\* the stream yields a chunk: empty chunks are skipped, the others are
\* appended to _audio_buffer as they are
VadChunk(len) ==
    /\ ~ vad.ended
    /\ Len(vad.chunk_lens) < MaxChunks
    /\ RunBytes(vad.audio_buffer) < WindowBytes
    /\ UNCHANGED notVad
    /\ vad' = [vad EXCEPT
                  !.chunk_lens = Append(@, len),
                  !.audio_buffer =
                      IF len = 0 THEN @
                      ELSE Append(@, [chunk |-> Len(vad.chunk_lens) + 1,
                                      lo |-> 0, hi |-> len])]

\* one turn of the while loop: a window is cut from the head of the
\* buffer, converted, and scored unless the conversion gave None or the
\* inference raised
VadBufferedWindow(score) ==
    /\ ~ vad.ended
    /\ vad.fed < MaxWindows
    /\ RunBytes(vad.audio_buffer) >= WindowBytes
    /\ UNCHANGED notVad
    /\ LET vad_processing_chunk_bytes == TakeBytes(vad.audio_buffer, WindowBytes)
           vad_chunk_tensor == _bytes_to_tensor(vad_processing_chunk_bytes)
           cut == [vad EXCEPT !.audio_buffer = DropBytes(@, WindowBytes)]
       IN vad' =
            IF vad_chunk_tensor = None
            THEN [cut EXCEPT !.fed = @ + 1]
            ELSE LET seen == [cut EXCEPT
                                !.analysed = Append(@, vad_chunk_tensor.samples)]
                 IN IF score = "raises"
                    THEN [seen EXCEPT !.fed = @ + 1]
                    ELSE Scored(seen, score = "speech")

\* the stream ends once the loop has used up the whole windows
VadChunksEnd ==
    /\ RunBytes(vad.audio_buffer) < WindowBytes
    /\ VadEndOfStream

NextVadChunks ==
    \/ \E len \in ChunkLens : VadChunk(len)
    \/ \E score \in {"speech", "silence", "raises"} : VadBufferedWindow(score)
    \/ VadChunksEnd

SpecVadChunks == Init /\ [][NextVadChunks]_vars

\* =========================================== WhisperEngine and STT pipeline
notStt == << conn, active_connections, bus, handled, offers, redis, vad,
            trigger, mapper, api, loader >>

\* the duration a provider reports for a segment, in units of time
Durations == {1}

\* what a provider call returns: None after a provider failure, a
\* transcription without text, or text with the duration of the audio
Results ==
    {[kind |-> "fail", duration |-> 0], [kind |-> "empty", duration |-> 1]}
        \cup [kind : {"text"}, duration : Durations]

SegIds == 1..MaxSegs

Finished(state) == state \in {"done", "raised"}

\* leaving "async with self.semaphore" without giving the permit back
ReleaseLeak(value) == value

\* Semaphore.release on leaving "async with self.semaphore"
Release(value) == value + 1

\* an utterance id that is not rotated
SameUtteranceId(id) == id

\* current_utterance_id = uuid.uuid4(): an id not used before
NewUtteranceId(id) == id + 1

\* a segment start that moves backwards
RewindStart(start, duration) == start - duration

\* current_utterance_segment_start_time_s += duration
AdvanceStart(start, duration) == start + duration

\* cancel every task of active_tasks that is not done; a running one
\* leaves "async with" and gives its permit back
CancelActive(s) ==
    LET act == Range(s.active_tasks)
        running == { i \in act : s.task[i] = "running" }
        release[n \in 0..MaxSegs] ==
            IF n = 0 THEN s.semaphore ELSE Release(release[n - 1])
    IN [s EXCEPT
          !.task = [i \in SegIds |->
                      IF i \in act /\ ~ Finished(s.task[i]) /\ s.task[i] # "none"
                      THEN "cancelled" ELSE s.task[i]],
          !.semaphore = release[Cardinality(running)]]

\* except Exception in transcribe_stream: cancel, gather, finish; the
\* pipeline's "async for" then ends
StreamError(s) ==
    [CancelActive(s) EXCEPT !.gen = "finished", !.pipe = "ended",
                            !.done = << >>]

\* --- transcribe_stream
\* the segmenter yields a segment: the adapter sets the finality event, the
\* engine creates the task and decides whether to look for finished ones
SegmentArrives ==
    /\ stt.gen = "next"
    /\ stt.pipe = "iter"
    /\ stt.ep = "await"
    /\ stt.segs < MaxSegs
    /\ UNCHANGED notStt
    /\ LET i == stt.segs + 1
           act == Append(stt.active_tasks, i)
       IN stt' = [stt EXCEPT
                    !.segs = i,
                    !.event = TRUE,
                    !.task[i] = "created",
                    !.active_tasks = act,
                    !.slow_owed = @ \/ stt.semaphore = 0,
                    !.gen = IF Len(act) >= MaxInFlight \/ stt.semaphore = 0
                            THEN "wait" ELSE "next"]

\* asyncio.wait(active_tasks, timeout=0.01, FIRST_COMPLETED) returns the
\* set of finished tasks, which is iterated in some order
GenWaitReturn ==
    /\ stt.gen = "wait"
    /\ UNCHANGED notStt
    /\ LET D == { i \in Range(stt.active_tasks) : Finished(stt.task[i]) } IN
       \E order \in Orderings(D) :
          stt' = [stt EXCEPT
                    !.done = order,
                    !.active_tasks = SelectSeq(@, LAMBDA i : i \notin D),
                    !.gen = IF D = {} THEN "next" ELSE "yield"]

\* for t in done: result = await t; if result: yield result
GenYield ==
    /\ stt.gen = "yield"
    /\ stt.pipe = "iter"
    /\ UNCHANGED notStt
    /\ stt' =
         IF stt.done = << >> THEN [stt EXCEPT !.gen = "next"]
         ELSE LET t == Head(stt.done) IN
              IF stt.task[t] = "raised"
              THEN [StreamError(stt) EXCEPT !.fault = "error"]
              ELSE IF stt.result[t].kind = "fail"
                   THEN [stt EXCEPT !.done = Tail(@)]
                   ELSE [stt EXCEPT !.done = Tail(@), !.pipe = "body",
                                    !.hand = t]

\* the provider of segments raises: the client disconnected, or receiving
\* or segmenting failed
ProviderRaises(kind) ==
    /\ stt.gen = "next"
    /\ stt.pipe = "iter"
    /\ stt.ep = "await"
    /\ UNCHANGED notStt
    /\ stt' = [StreamError(stt) EXCEPT !.fault = kind]

\* the provider of segments is exhausted
ProviderExhausted ==
    /\ stt.gen = "next"
    /\ stt.pipe = "iter"
    /\ stt.ep = "await"
    /\ UNCHANGED notStt
    /\ stt' = [stt EXCEPT !.gen = "drain"]

\* for task_to_complete in asyncio.as_completed(active_tasks)
GenDrain ==
    /\ stt.gen = "drain"
    /\ stt.pipe = "iter"
    /\ UNCHANGED notStt
    /\ IF stt.active_tasks = << >>
       THEN stt' = [stt EXCEPT !.gen = "finished", !.pipe = "ended"]
       ELSE /\ \E k \in 1..Len(stt.completed) :
                  stt.completed[k] \in Range(stt.active_tasks)
            /\ LET k == CHOOSE k \in 1..Len(stt.completed) :
                          /\ stt.completed[k] \in Range(stt.active_tasks)
                          /\ \A j \in 1..(k - 1) :
                                stt.completed[j] \notin Range(stt.active_tasks)
                   t == stt.completed[k]
                   rest == SelectSeq(stt.active_tasks, LAMBDA i : i # t)
               IN stt' =
                    IF stt.task[t] = "raised"
                    THEN [StreamError(stt) EXCEPT !.fault = "error"]
                    ELSE IF stt.result[t].kind = "fail"
                         THEN [stt EXCEPT !.active_tasks = rest]
                         ELSE [stt EXCEPT !.active_tasks = rest,
                                          !.pipe = "body", !.hand = t]

\* --- _process_segment_with_semaphore
TaskAcquire(i) ==
    /\ stt.task[i] = "created"
    /\ stt.semaphore > 0
    /\ UNCHANGED notStt
    /\ stt' = [stt EXCEPT !.task[i] = "running", !.semaphore = @ - 1]

\* a provider call whose failure is not caught in the call
TaskCompleteRaising(i, res) ==
    /\ stt.task[i] = "running"
    /\ UNCHANGED notStt
    /\ stt' = [stt EXCEPT
                  !.task[i] = IF res.kind = "fail" THEN "raised" ELSE "done",
                  !.result[i] = res,
                  !.semaphore = Release(@),
                  !.completed = Append(@, i)]

\* the provider call returns: a transcription, or None when the call
\* failed and the exception was logged
TaskComplete(i, res) ==
    /\ stt.task[i] = "running"
    /\ UNCHANGED notStt
    /\ stt' = [stt EXCEPT !.task[i] = "done", !.result[i] = res,
                          !.semaphore = Release(@),
                          !.completed = Append(@, i)]

TaskRaises(i) ==
    /\ stt.task[i] = "running"
    /\ UNCHANGED notStt
    /\ stt' = [stt EXCEPT !.task[i] = "raised",
                          !.semaphore = Release(@),
                          !.completed = Append(@, i)]

\* --- audio_processing_pipeline, the body of the "async for"
\* a pipeline that never calls the publisher
publish_nothing(attempts, record) == attempts

\* redis_publisher.publish_transcript_message(final_msg_for_redis): the
\* publisher is connected for the whole session, so the call reaches
\* redis_client.publish with the fields of the record sent to the client
publish_transcript_message(attempts, record) ==
    Append(attempts, [seg |-> record.seg, utterance_id |-> record.utterance_id,
                      ts_start |-> record.ts_start, ts_end |-> record.ts_end])

\* up to the last send of the record: skip a result without text, otherwise
\* send the record, and for a final one publish it and rotate
PipelineEmit(pubOk) ==
    /\ stt.pipe = "body"
    /\ UNCHANGED notStt
    /\ LET r == stt.result[stt.hand]
           is_this_transcription_final == stt.event
           ws_msg_data ==
              [seg |-> stt.hand,
               kind |-> IF is_this_transcription_final THEN "final" ELSE "partial",
               utterance_id |-> stt.current_utterance_id,
               ts_start |-> stt.current_utterance_segment_start_time_s,
               ts_end |-> stt.current_utterance_segment_start_time_s + r.duration]
       IN stt' =
            IF r.kind = "empty" THEN [stt EXCEPT !.pipe = "iter", !.hand = 0]
            ELSE IF is_this_transcription_final
                 THEN [stt EXCEPT
                         !.records = Append(@, ws_msg_data),
                         !.published = IF pubOk THEN Append(@, stt.hand) ELSE @,
                         !.attempts = publish_transcript_message(@, ws_msg_data),
                         !.event = FALSE,
                         !.current_utterance_id = NewUtteranceId(@),
                         !.current_utterance_segment_start_time_s = 0,
                         !.pipe = "slowcheck"]
                 ELSE [stt EXCEPT
                         !.records = Append(@, ws_msg_data),
                         !.current_utterance_segment_start_time_s =
                             AdvanceStart(@, r.duration),
                         !.pipe = "slowcheck"]

\* the body raises, in websocket.send_text because the client is gone or
\* with another error while the record is built or sent: the pipeline task
\* ends with the exception and the generator is closed; the transcription
\* tasks are left to finish
PipelineSendFails(kind) ==
    /\ stt.pipe = "body"
    /\ stt.result[stt.hand].kind = "text"
    /\ UNCHANGED notStt
    /\ stt' = [stt EXCEPT !.pipe = "failed", !.gen = "finished", !.hand = 0,
                          !.done = << >>, !.exc = kind, !.fault = kind]

\* if whisper_processor.semaphore._value == 0: send the slow message
PipelineSlowCheck ==
    /\ stt.pipe = "slowcheck"
    /\ UNCHANGED notStt
    /\ stt' = [stt EXCEPT
                 !.slow = IF stt.semaphore = 0 THEN @ + 1 ELSE @,
                 !.slow_owed = IF stt.semaphore = 0 THEN FALSE ELSE @,
                 !.pipe = "iter", !.hand = 0]

\* --- websocket_endpoint of the speech-to-text service
\* await pipeline_task returns or raises: WebSocketDisconnect is logged, any
\* other exception makes the handler try to send an error message
SttEndpointExcept(sendOk) ==
    /\ stt.ep = "await"
    /\ stt.pipe \in {"ended", "failed"}
    /\ UNCHANGED notStt
    /\ stt' = [stt EXCEPT
                 !.error_sent = stt.exc = "error" /\ sendOk,
                 !.ep = "finally"]

\* a cleanup that leaves the publisher connected
SttCleanupKeepPublisher(s) ==
    [s EXCEPT !.connected = FALSE, !.ep = "closed"]

\* finally: manager.disconnect, and redis_publisher.close() when connected;
\* the pipeline task is done by then, so it is not cancelled
SttCleanup(s) ==
    [s EXCEPT !.connected = FALSE, !.is_connected = FALSE, !.ep = "closed"]

SttEndpointFinally ==
    /\ stt.ep = "finally"
    /\ UNCHANGED notStt
    /\ stt' = SttCleanup(stt)

\* the steps of the service; the segments come from the client
SttSteps ==
    \/ GenWaitReturn
    \/ GenYield
    \/ \E kind \in {"disconnect", "error"} : ProviderRaises(kind)
    \/ ProviderExhausted
    \/ GenDrain
    \/ \E i \in SegIds : TaskAcquire(i)
    \/ \E i \in SegIds, res \in Results : TaskComplete(i, res)
    \/ \E i \in SegIds : TaskRaises(i)
    \/ \E pubOk \in BOOLEAN : PipelineEmit(pubOk)
    \/ \E kind \in {"disconnect", "error"} : PipelineSendFails(kind)
    \/ PipelineSlowCheck
    \/ \E sendOk \in BOOLEAN : SttEndpointExcept(sendOk)
    \/ SttEndpointFinally

NextStt ==
    \/ SegmentArrives
    \/ SttSteps

SpecStt == Init /\ [][NextStt]_vars

\* tasks that are ready run, provider calls return, the generator and the
\* pipeline go on; the client and the segmenter are not forced
FairnessStt ==
    /\ WF_vars(GenWaitReturn)
    /\ WF_vars(GenYield)
    /\ WF_vars(GenDrain)
    /\ \A i \in SegIds : WF_vars(TaskAcquire(i))
    /\ \A i \in SegIds : WF_vars((\E res \in Results : TaskComplete(i, res)) \/ TaskRaises(i))
    /\ WF_vars((\E pubOk \in BOOLEAN : PipelineEmit(pubOk))
                  \/ (\E kind \in {"disconnect", "error"} : PipelineSendFails(kind)))
    /\ WF_vars(PipelineSlowCheck)
    /\ WF_vars(\E sendOk \in BOOLEAN : SttEndpointExcept(sendOk))
    /\ WF_vars(SttEndpointFinally)

FairSpecStt == SpecStt /\ FairnessStt

\* a session in which the client speaks at most ShortSegs segments
SegmentArrivesShort ==
    /\ stt.segs < ShortSegs
    /\ SegmentArrives

NextSttShort ==
    \/ SegmentArrivesShort
    \/ SttSteps

FairSpecSttShort == Init /\ [][NextSttShort]_vars /\ FairnessStt

\* ================================================== trigger_service/service.py
notTrigger == << conn, active_connections, bus, handled, offers, redis, vad,
                stt, mapper, api, loader >>

Str(v) == [type |-> "str", v |-> v]

\* what pubsub.listen() hands to run(): the subscribe confirmation, a
\* payload that is not JSON, or an intent as IntentMsg.model_dump_json
\* writes it
TriggerMessages ==
    { [NoIntent EXCEPT !.type = "subscribe"], [NoIntent EXCEPT !.type = "message"] }
    \cup [type : {"message"}, valid : {TRUE}, utterance_id : {"u1", "u2"},
          component : {"button", "modal"}, confidence : {74, 75, 90}]

\* what POST /v1/map gives: the request raises (no connection, timeout); a
\* stub's {"theme_tokens": {"color": "blue"}}; the MappingResponse of the
\* design mapper, whose theme_tokens is a ThemeTokens dump with null fields
\* and the additional_properties object; an error body without theme_tokens
MapperResponses == {"raises", "stub", "mapping", "detail"}

\* mapping.get("theme_tokens", {}), and {} when the request raised
tokens_of(response) ==
    CASE response = "stub" -> [k \in {"color"} |-> Str("blue")]
      [] response = "mapping" ->
            [k \in {"border_radius", "shadow", "additional_properties"} |->
                CASE k = "border_radius" -> Str("full")
                  [] k = "shadow" -> [type |-> "null"]
                  [] OTHER -> [type |-> "object"]]
      [] OTHER -> << >>

\* DesignSpec(theme_tokens=tokens): theme_tokens is dict[str, str]
DesignSpecValid(tokens) == \A k \in DOMAIN tokens : tokens[k].type = "str"

\* handle_intent: the tokens of the mapper, then the spec is built (which
\* raises when it does not validate) and published
handle_intent(t, intent, response) ==
    LET tokens == tokens_of(response)
    IN IF DesignSpecValid(tokens)
       THEN [t EXCEPT !.published =
                Append(@, [component |-> intent.component,
                           theme_tokens |-> tokens,
                           source_utts |-> << intent.utterance_id >>])]
       ELSE t

\* one turn of the loop of run(): a message that is not of type "message"
\* is skipped; json.loads and handle_intent run inside try/except Exception
TriggerRun(message, response) ==
    /\ trigger.received < MaxIntents
    /\ UNCHANGED notTrigger
    /\ LET t == [trigger EXCEPT !.received = @ + 1, !.message = message,
                                !.mapping = "none"]
       IN trigger' =
            IF message.type = "message" /\ message.valid
               /\ message.confidence >= CONFIDENCE_THRESHOLD
            THEN handle_intent([t EXCEPT !.mapping = response], message, response)
            ELSE t

NextTrigger ==
    \E message \in TriggerMessages, response \in MapperResponses :
        TriggerRun(message, response)

SpecTrigger == Init /\ [][NextTrigger]_vars

\* ============================================== design_mapper/service/mapper.py
notMapper == << conn, active_connections, bus, handled, offers, redis, vad,
               stt, trigger, api, loader >>

\* the names a request can carry before MappingRequest normalises them
RawStyles == {"pill", "Flat", "ghost", ""}
RawBrands == {"stripe", "Apple", "acme", ""}
Components == {"none", "button"}

\* v.lower().strip()
Lower(v) ==
    CASE v = "Flat" -> "flat"
      [] v = "Apple" -> "apple"
      [] OTHER -> v

NonEmpty(v) == v # ""

RECURSIVE MapLower(_)
MapLower(values) ==
    IF values = << >> THEN << >>
    ELSE << Lower(Head(values)) >> \o MapLower(Tail(values))

\* MappingRequest.normalize_strings: [v.lower().strip() for v in values if v]
normalize_strings(values) == MapLower(SelectSeq(values, NonEmpty))

Props(border_radius, shadow, glow) ==
    [k \in ThemeFields \cup ExtraKeys |->
        CASE k = "border_radius" -> border_radius
          [] k = "shadow" -> shadow
          [] OTHER -> glow]

\* {}: what the loader returns for a name that is not in the mappings
NoProps == Props(None, None, None)

\* MappingsLoader.get_brand_properties over a mappings file with the brands
\* stripe and apple
get_brand_properties(brand_id) ==
    CASE Lower(brand_id) = "stripe" -> Props(Str("full"), None, Str("soft"))
      [] Lower(brand_id) = "apple" -> Props(Str("lg"), Str("sm"), None)
      [] OTHER -> NoProps

\* MappingsLoader.get_style_properties over a mappings file with the styles
\* pill, flat and button_pill
get_style_properties(style_id) ==
    CASE Lower(style_id) = "pill" -> Props(Str("full"), None, None)
      [] Lower(style_id) = "flat" -> Props(Str("none"), Str("none"), None)
      [] Lower(style_id) = "button_pill" -> Props(Str("xl"), None, Str("on"))
      [] OTHER -> NoProps

\* f"{request.component}_{style}" for the component button
comp_key_of(component, style) ==
    CASE style = "pill" -> "button_pill"
      [] style = "flat" -> "button_flat"
      [] OTHER -> "button_ghost"

\* ThemeTokens(**known_fields, additional_properties=additional_properties)
_dict_to_theme_tokens(properties) ==
    [fields |-> [k \in ThemeFields |-> properties[k]],
     additional_properties |-> [k \in ExtraKeys |-> properties[k]]]

\* ThemeTokens.update: the values of other that are not None replace those of
\* self; additional_properties are merged
update(self, other) ==
    [fields |-> [k \in ThemeFields |->
                    IF other.fields[k] # None THEN other.fields[k]
                    ELSE self.fields[k]],
     additional_properties |-> [k \in ExtraKeys |->
                    IF other.additional_properties[k] # None
                    THEN other.additional_properties[k]
                    ELSE self.additional_properties[k]]]

RECURSIVE UpdateAll(_, _)
UpdateAll(merged_tokens, properties) ==
    IF properties = << >> THEN merged_tokens
    ELSE UpdateAll(IF Head(properties) # NoProps
                   THEN update(merged_tokens, _dict_to_theme_tokens(Head(properties)))
                   ELSE merged_tokens,
                   Tail(properties))

\* _merge_properties_to_tokens: brand properties in order, then style
\* properties in order
_merge_properties_to_tokens(brand_properties, style_properties) ==
    UpdateAll(UpdateAll(ThemeTokens, brand_properties), style_properties)

\* the loop over request.brand_refs: << brand_properties, used_brands >>
RECURSIVE CollectBrands(_)
CollectBrands(brand_refs) ==
    IF brand_refs = << >> THEN << << >>, << >> >>
    ELSE LET brand_props == get_brand_properties(Head(brand_refs))
             rest == CollectBrands(Tail(brand_refs))
         IN IF brand_props # NoProps
            THEN << << brand_props >> \o rest[1], << Head(brand_refs) >> \o rest[2] >>
            ELSE rest

\* the loop over request.styles: << style_properties, used_styles >>; the
\* component key of a style is looked up right after the style
RECURSIVE CollectStyles(_, _)
CollectStyles(styles, component) ==
    IF styles = << >> THEN << << >>, << >> >>
    ELSE LET style == Head(styles)
             style_props == get_style_properties(style)
             comp_key == comp_key_of(component, style)
             comp_props == IF component # "none"
                           THEN get_style_properties(comp_key) ELSE NoProps
             rest == CollectStyles(Tail(styles), component)
             own == IF style_props # NoProps
                    THEN << << style_props >>, << style >> >>
                    ELSE << << >>, << >> >>
             comp == IF comp_props # NoProps
                     THEN << << comp_props >>, << comp_key >> >>
                     ELSE << << >>, << >> >>
         IN << own[1] \o comp[1] \o rest[1], own[2] \o comp[2] \o rest[2] >>

\* map_request_to_tokens(request), without the cache
map_request_to_tokens(request) ==
    LET brands == CollectBrands(request.brand_refs)
        styles == CollectStyles(request.styles, request.component)
    IN [theme_tokens |-> _merge_properties_to_tokens(brands[1], styles[1]),
        used_styles |-> styles[2], used_brands |-> brands[2]]

\* POST /v1/map: the request is validated and map_request_to_tokens is
\* called.  With ENABLE_LRU_CACHE (the default) the function is wrapped in
\* functools.lru_cache, which hashes its argument: a MappingRequest is not
\* frozen and so not hashable, and the call raises TypeError.
MapRequest(styles, brand_refs, component, cache) ==
    /\ mapper.calls < MaxMapCalls
    /\ cache \in (IF mapper.calls = 0 THEN BOOLEAN ELSE {mapper.cache})
    /\ UNCHANGED notMapper
    /\ LET request == [styles |-> normalize_strings(styles),
                       brand_refs |-> normalize_strings(brand_refs),
                       component |-> component]
           answer == map_request_to_tokens(request)
       IN mapper' =
            IF cache
            THEN [MapperInit EXCEPT !.calls = mapper.calls + 1, !.cache = TRUE,
                                    !.request = request, !.raised = TRUE]
            ELSE [calls |-> mapper.calls + 1, cache |-> FALSE,
                  request |-> request, raised |-> FALSE,
                  theme_tokens |-> answer.theme_tokens,
                  used_styles |-> answer.used_styles,
                  used_brands |-> answer.used_brands]

SeqsUpTo(S, n) == UNION { [1..k -> S] : k \in 0..n }

NextMapper ==
    \E styles \in SeqsUpTo(RawStyles, MaxRefs),
       brand_refs \in SeqsUpTo(RawBrands, MaxRefs),
       component \in Components, cache \in BOOLEAN :
        MapRequest(styles, brand_refs, component, cache)

SpecMapper == Init /\ [][NextMapper]_vars

\* ================================================== orchestrator/api/router.py
notApi == << conn, active_connections, bus, handled, offers, redis, vad,
            stt, trigger, mapper, loader >>

\* security.create_access_token({"sub": str(session_id), ...}): a signed
\* token that expires JWT_ACCESS_TOKEN_EXPIRE_MINUTES from now
create_access_token(sub) ==
    [present |-> TRUE, sig |-> TRUE, expired |-> FALSE, sub |-> sub]

\* constructing an AppBaseModel ("extra": "forbid") with keyword arguments:
\* a keyword that is not a field raises ValidationError
Validates(given, declared) == given \subseteq declared

\* datetime.utcnow() moves on
ApiTick ==
    /\ api.now < MaxClock
    /\ UNCHANGED notApi
    /\ api' = [api EXCEPT !.now = @ + 1]

\* POST /v1/sessions
create_new_session ==
    /\ api.next_uuid <= MaxApiSessions
    /\ UNCHANGED notApi
    /\ LET session_id == api.next_uuid
           stored == [i \in DOMAIN api.active_sessions \cup {session_id} |->
                        IF i = session_id
                        THEN [created_at |-> api.now, last_activity_at |-> api.now]
                        ELSE api.active_sessions[i]]
           access_token == create_access_token(session_id)
       IN api' = [api EXCEPT
                    !.next_uuid = @ + 1,
                    !.active_sessions = stored,
                    !.response =
                        IF Validates({"session_id", "token"},
                                     SessionCreateResponseFields)
                        THEN [status |-> 201, session_id |-> session_id,
                              token |-> access_token]
                        ELSE [NoResponse EXCEPT !.status = 500]]

\* GET /v1/sessions/{session_id}/summary
get_session_summary(session_id) ==
    /\ UNCHANGED notApi
    /\ api' =
         IF session_id \notin DOMAIN api.active_sessions
         THEN [api EXCEPT !.response = [NoResponse EXCEPT !.status = 404]]
         ELSE [api EXCEPT
                 !.active_sessions[session_id].last_activity_at = api.now,
                 !.response = [NoResponse EXCEPT !.status = 200,
                                                 !.session_id = session_id]]

\* DELETE /v1/sessions/{session_id}
delete_session(session_id) ==
    /\ UNCHANGED notApi
    /\ api' =
         IF session_id \notin DOMAIN api.active_sessions
         THEN [api EXCEPT !.response = [NoResponse EXCEPT !.status = 404]]
         ELSE [api EXCEPT
                 !.active_sessions =
                     [i \in DOMAIN api.active_sessions \ {session_id} |->
                        api.active_sessions[i]],
                 !.response = [NoResponse EXCEPT !.status = 204]]

NextApi ==
    \/ ApiTick
    \/ create_new_session
    \/ \E session_id \in 1..MaxApiSessions : get_session_summary(session_id)
    \/ \E session_id \in 1..MaxApiSessions : delete_session(session_id)

SpecApi == Init /\ [][NextApi]_vars

\* ------------------------------------- sessions and WebSocket admission
\* str(session_id): the subject of the token and the session in the path
SessionStr(session_id) ==
    CASE session_id = 1 -> "s1"
      [] session_id = 2 -> "s2"
      [] OTHER -> "s3"

\* the sessions create_new_session has made so far, deleted or not
CreatedSessions == 1..(api.next_uuid - 1)

\* the tokens create_new_session has made for them
IssuedTokens == { create_access_token(SessionStr(i)) : i \in CreatedSessions }

\* a client opens /v1/ws/{session_id}?token=... for a session that was
\* created, with the token made for it, another one, or none
Admission(c) ==
    \/ \E i \in CreatedSessions, t \in IssuedTokens \cup {NoToken} :
          WebsocketEndpoint(c, SessionStr(i), t)
    \/ EndpointAccepted(c)

NextAdmission ==
    \/ NextApi
    \/ \E c \in Conns : Admission(c)

SpecAdmission == Init /\ [][NextAdmission]_vars

\* -------------------------------------------- design mapper: hot reload
notLoader == << conn, active_connections, bus, handled, offers, redis, vad,
               stt, trigger, mapper, api >>

FileKinds == {"valid", "unparseable", "invalid"}

\* the mappings file is rewritten; the modification time moves on, or
\* stays within the same tick of the clock
FileWrite(kind, tick) ==
    /\ Len(loader.written) <= MaxWrites
    /\ UNCHANGED notLoader
    /\ loader' = [loader EXCEPT
                     !.written = Append(@, kind),
                     !.file = [exists |-> TRUE, mtime |-> @.mtime + tick,
                               content |-> Len(loader.written) + 1]]

\* the mappings file is removed
FileDelete ==
    /\ loader.file.exists
    /\ UNCHANGED notLoader
    /\ loader' = [loader EXCEPT !.file.exists = FALSE]

\* a loader that records the modification time before it parses the file
load_mappings_stamps_first(l) ==
    IF ~ l.file.exists THEN [l EXCEPT !.returned = "False"]
    ELSE LET current_mtime == l.file.mtime IN
         IF current_mtime <= l.last_modified_time
         THEN [l EXCEPT !.returned = "True"]
         ELSE IF l.written[l.file.content] # "valid"
              THEN [l EXCEPT !.last_modified_time = current_mtime,
                             !.returned = "False"]
              ELSE [l EXCEPT !.mappings_data = l.file.content,
                             !.last_modified_time = current_mtime,
                             !.returned = "True"]

\* MappingsLoader.load_mappings under self.lock
load_mappings(l) ==
    IF ~ l.file.exists THEN [l EXCEPT !.returned = "False"]
    ELSE LET current_mtime == l.file.mtime IN
         IF current_mtime <= l.last_modified_time
         THEN [l EXCEPT !.returned = "True"]
         ELSE IF l.written[l.file.content] # "valid"
              THEN [l EXCEPT !.returned = "False"]
              ELSE [l EXCEPT !.mappings_data = l.file.content,
                             !.last_modified_time = current_mtime,
                             !.returned = "True"]

\* the watchdog thread calls the reload callback
LoadMappings ==
    /\ loader.loads < MaxWrites + 1
    /\ UNCHANGED notLoader
    /\ loader' = [load_mappings(loader) EXCEPT !.loads = @ + 1]

\* MappingsLoader.get_mappings, get_brand_properties, get_style_properties:
\* each takes the lock and reads self.mappings_data as it is then
get_mappings(l) == l.mappings_data

\* map_request is entered with a request naming a brand and a style; with
\* ENABLE_LRU_CACHE the call of map_request_to_tokens raises TypeError
MapRequestBegin(cache) ==
    /\ loader.pc = "idle"
    /\ loader.requests < MaxRequests
    /\ cache \in (IF loader.requests = 0 THEN BOOLEAN ELSE {loader.cache})
    /\ UNCHANGED notLoader
    /\ loader' = [loader EXCEPT !.requests = @ + 1, !.cache = cache,
                                !.seen = NoMappingResponse,
                                !.pc = IF cache THEN "idle" ELSE "brands"]

\* loader.get_brand_properties(brand_ref)
MapRequestBrands ==
    /\ loader.pc = "brands"
    /\ UNCHANGED notLoader
    /\ loader' = [loader EXCEPT !.seen.brands = get_mappings(loader),
                                !.pc = "styles"]

\* loader.get_style_properties(style)
MapRequestStyles ==
    /\ loader.pc = "styles"
    /\ UNCHANGED notLoader
    /\ loader' = [loader EXCEPT !.seen.styles = get_mappings(loader),
                                !.pc = "tailwind"]

\* _generate_tailwind_classes: loader.get_mappings().tailwind_token_map,
\* then the MappingResponse is built and returned
MapRequestTailwind ==
    /\ loader.pc = "tailwind"
    /\ UNCHANGED notLoader
    /\ LET answer == [loader.seen EXCEPT !.token_map = get_mappings(loader)]
       IN loader' = [loader EXCEPT !.seen = answer, !.response = answer,
                                   !.pc = "idle"]

NextLoader ==
    \/ \E kind \in FileKinds, tick \in {0, 1} : FileWrite(kind, tick)
    \/ FileDelete
    \/ LoadMappings
    \/ \E cache \in BOOLEAN : MapRequestBegin(cache)
    \/ MapRequestBrands
    \/ MapRequestStyles
    \/ MapRequestTailwind

SpecLoader == Init /\ [][NextLoader]_vars

\* ================================================================= claims

\* C1: a connect whose token is missing, fails verification (bad signature
\* or expired) or names a subject other than session_id is closed with 1008
\* before being accepted, is never registered and gets no task.
TokenFails(cn) ==
    \/ ~cn.token.present
    \/ ~cn.token.sig
    \/ cn.token.expired
    \/ cn.token.sub # cn.session_id

C1_RejectedBeforeAccept ==
    \A c \in Conns :
        (conn[c].ep # "idle" /\ TokenFails(conn[c])) =>
            /\ conn[c].ep = "rejected"
            /\ conn[c].ws_close_code = WS_1008_POLICY_VIOLATION
            /\ ~conn[c].ws_accepted
            /\ c \notin active_connections
            /\ conn[c].sender_task = "none"
            /\ conn[c].receiver_task = "none"
            /\ conn[c].heartbeat_task = "none"

C1_Witness ==
    \E c \in Conns :
        /\ conn[c].ep = "rejected"
        /\ conn[c].token.present /\ conn[c].token.sig /\ ~conn[c].token.expired
        /\ conn[c].token.sub \in Sessions
        /\ conn[c].token.sub # conn[c].session_id

\* C2: a connection is force-closed for backpressure exactly when its
\* cumulative number of drops first exceeds 3, and the client socket is then
\* closed with code 1011 and reason "backpressure".
C2_BackpressureClose ==
    /\ [](\A c \in Conns :
            (conn[c].close_reason = "backpressure")
                <=> (conn[c].queue_full_count > QueueFullLimit))
    /\ [](\A c \in Conns : conn[c].queue_full_count <= QueueFullLimit + 1)
    /\ \A c \in Conns :
            (conn[c].queue_full_count > QueueFullLimit)
                ~> (/\ conn[c].ws_close_code = WS_1011_INTERNAL_ERROR
                    /\ conn[c].ws_close_reason = "backpressure")

\* C3: send_json_str on an active connection never waits: below capacity the
\* string is appended at the tail and the drop counter is unchanged; on a
\* full queue the string is discarded, the queue is unchanged and the
\* counter grows by exactly 1; the counter never decreases.
C3_Step(c) ==
    LET a == conn[c]
        b == conn'[c]
    IN /\ b.queue_full_count >= a.queue_full_count
       /\ (b.accepted # a.accepted) =>
             /\ a.active
             /\ Len(a.outgoing_queue) < MaxQueue
             /\ b.outgoing_queue = Append(a.outgoing_queue, b.accepted[Len(b.accepted)])
             /\ Len(b.accepted) = Len(a.accepted) + 1
             /\ b.queue_full_count = a.queue_full_count
       /\ (b.queue_full_count # a.queue_full_count) =>
             /\ a.active
             /\ Len(a.outgoing_queue) = MaxQueue
             /\ b.outgoing_queue = a.outgoing_queue
             /\ b.accepted = a.accepted
             /\ b.queue_full_count = a.queue_full_count + 1

C3_EnqueueNeverBlocks ==
    [][ /\ \A c \in Conns : C3_Step(c)
        /\ (offers' # offers) =>
              \E c \in Conns :
                  /\ conn[c].active
                  /\ Len(conn'[c].accepted) + conn'[c].queue_full_count
                        = Len(conn[c].accepted) + conn[c].queue_full_count + 1 ]_vars

C3_Witness ==
    \E c \in Conns :
        /\ conn[c].active
        /\ conn[c].queue_full_count = 2
        /\ Len(conn[c].accepted) >= 2

\* C4: during a broadcast a client whose queue is full, also one that is
\* force-closed on this pass, does not make the remaining clients wait: the
\* broadcast is never suspended on that client's tasks or close handshake
\* while a client of the pass has not been offered the message.
C4_BroadcastNeverWaits ==
    (bus.pc = "inclose") =>
        \A i \in (bus.idx + 1)..Len(bus.snap) :
            conn[bus.snap[i]].active => bus.offered[bus.snap[i]] >= 1

\* C5: what the sender writes to the socket is, in order and without
\* duplicates, a subsequence of what send_json_str accepted; accepted strings
\* are missing only when they were undelivered at the time of the close.
IsPrefix(p, q) == Len(p) <= Len(q) /\ \A i \in 1..Len(p) : p[i] = q[i]

InHand(cn) == IF cn.message_json_str = NoMsg THEN << >> ELSE << cn.message_json_str >>

CloseCompleted(cn) ==
    /\ cn.sender_task = "done"
    /\ cn.receiver_task = "done"
    /\ cn.heartbeat_task = "done"
    /\ \/ cn.client_state = "DISCONNECTED"
       \/ cn.ws_close_code = cn.close_code /\ cn.ws_close_reason = cn.close_reason
    /\ cn.stt_ws \in {"none", "closed"}

C6_CloseCompletes ==
    \A c \in Conns : (conn[c].close_calls > 0) ~> CloseCompleted(conn[c])

\* C7: a close called after a close has completed changes nothing: no task
\* is cancelled, neither socket is closed again, the close code the client
\* saw and the connection state stay as they were.
C7_Step(c) ==
    (conn[c].closePc = "returned" /\ conn'[c].close_calls > conn[c].close_calls) =>
        conn'[c] = [conn[c] EXCEPT !.close_calls = conn'[c].close_calls,
                                   !.late_close = conn'[c].late_close,
                                   !.ep = conn'[c].ep]

C7_CloseIdempotent == [][\A c \in Conns : C7_Step(c)]_vars

C7_Witness ==
    \E c \in Conns :
        /\ conn[c].late_close
        /\ conn[c].ws_close_code = WS_1011_INTERNAL_ERROR
        /\ conn[c].ws_close_calls = 1
        /\ conn[c].stt_close_calls = 1

\* C8: every well-formed message on any of the six subscribed channels is
\* offered exactly once to every active registered connection, wrapped with
\* the kind of its channel.
ExpectedKind(channel) ==
    CASE channel = "transcripts" -> "transcript"
      [] channel = "intents" -> "intent"
      [] channel = "components" -> "component"
      [] channel = "insights" -> "insight"
      [] channel = "design_specs" -> "design_spec"
      [] channel = "service_status" -> "service_status"

C8_EveryChannelFannedOut ==
    (handled.wellformed /\ handled.channel \in Channels /\ bus.pc = "idle") =>
        /\ handled.outcome = "broadcast"
        /\ bus.msg = ExpectedKind(handled.channel)
        /\ \A c \in Range(bus.snap) : conn[c].active => bus.offered[c] = 1

\* C9: the ConnectionManager never holds two live connections with the same
\* session_id.
C9_OneConnectionPerSession ==
    \A c, d \in active_connections :
        (conn[c].active /\ conn[d].active /\ conn[c].session_id = conn[d].session_id)
            => c = d

\* C10: a broadcast pass offers its message to exactly the connections
\* registered when it started: never to one registered later, and exactly
\* once to each one that was registered at the start and stays active.
C10_SnapshotPass ==
    \A c \in Conns :
        /\ bus.offered[c] <= 1
        /\ (bus.offered[c] = 1) => c \in Range(bus.snap)
        /\ (bus.pc = "idle" /\ c \in Range(bus.snap) /\ conn[c].active)
              => bus.offered[c] = 1

C10_Witness ==
    /\ bus.pc = "inclose"
    /\ \E c \in active_connections :
          /\ c \notin Range(bus.snap)
          /\ conn[c].active
          /\ bus.offered[c] = 0

\* ------------------------------------------------------------ redis_client
Subscribed == redis.pubsub_client /\ redis.pubsubLive

InInbox(m) == \E i \in 1..Len(redis.inbox) : redis.inbox[i] = m

PassedOrLost(m) ==
    \/ \E i \in 1..Len(redis.passed) : redis.passed[i] = m
    \/ m \in redis.lost

\* C11: after a transport error (failed connect, poll or ping), if the
\* broker stays reachable from some point on, the loop ends up holding its
\* subscription for good (unless a shutdown has begun); a message that
\* reached the subscription is passed to the handler, and is dropped only
\* by an outage of the broker or at shutdown.
C11_Resubscribes ==
    /\ (<>[](redis.up)) => <>[](Subscribed \/ redis.sd # "none")
    /\ \A m \in 1..MaxPub : InInbox(m) ~> PassedOrLost(m)
    /\ [][redis'.lost # redis.lost =>
            ((redis.up /\ ~ redis'.up) \/ redis'.sd # redis.sd)]_vars

\* the loop subscribed a second time after an outage and is handing a
\* message published since then to the handler
C11_Witness ==
    /\ redis.subs >= 2
    /\ redis.faults > 0
    /\ redis.pc = "handler"

\* C12: a handler exception is swallowed: the step in which the handler
\* raises leaves the loop running with its subscription and the buffered
\* messages untouched, and the messages that reach the subscription after
\* it are still passed to the handler.
C12_HandlerErrorSwallowed ==
    /\ [][(redis.pc = "handler" /\ redis'.pc \notin {"handler", "cancelled"}
             /\ redis'.outcome = "raised")
          => (/\ redis'.pc = "loop"
              /\ redis'.pubsub_client = redis.pubsub_client
              /\ redis'.pubsubLive = redis.pubsubLive
              /\ redis'.inbox = redis.inbox
              /\ redis'.lost = redis.lost)]_vars
    /\ \A m \in 1..MaxPub :
          (redis.outcome = "raised" /\ InInbox(m)) ~> PassedOrLost(m)

\* the handler raised on one message and has been called with the next
C12_Witness ==
    /\ redis.outcome = "raised"
    /\ redis.pc = "handler"
    /\ Len(redis.passed) >= 2

\* C13: once the stop event is set the subscriber loop terminates, wherever
\* it is, and after the loop has seen the event no handler call starts.
C13_StopTerminates ==
    /\ redis.stop_event ~> SubscriberDone(redis)
    /\ [][redis.observed => redis'.passed = redis.passed]_vars

\* the loop saw the stop event after an outage and a shutdown call returned
C13_Witness ==
    /\ redis.observed
    /\ redis.pc = "done"
    /\ redis.faults > 0
    /\ redis.sd \in {"stopped", "closed"}

\* --------------------------------------------------------------------- vad
\* C17: every segment the segmenter yields, after silence or at the flush
\* at the end of the stream, lasts at least min_speech_duration_ms.
C17_SegmentsLongEnough ==
    \A i \in 1..Len(vad.emitted) :
        segment_duration_ms(vad.emitted[i].frames) >= min_speech_duration_ms

\* a segment was yielded after silence and another at the flush
C17_Witness ==
    /\ \E i \in 1..Len(vad.emitted) : vad.emitted[i].at = "silence"
    /\ \E i \in 1..Len(vad.emitted) : vad.emitted[i].at = "flush"

\* C18: an utterance whose speech windows total less than
\* min_speech_duration_ms, followed by silence of VAD_MIN_SILENCE_DURATION_MS,
\* yields no segment.
C18_ShortSpeechDiscarded ==
    \A i \in 1..Len(vad.emitted) :
        vad.emitted[i].at = "silence" =>
            vad.emitted[i].speech * vad_window_duration_ms >= min_speech_duration_ms

\* ------------------------------------------------------------ stt pipeline
\* C14: the records sent to the client, and those published, follow the
\* order in which the segmenter produced their segments.
C14_SegmentOrder ==
    /\ \A i, j \in 1..Len(stt.records) :
          i < j => stt.records[i].seg < stt.records[j].seg
    /\ \A i, j \in 1..Len(stt.published) :
          i < j => stt.published[i] < stt.published[j]

\* C15: no two final records carry the same utterance_id.
C15_OneFinalPerUtterance ==
    \A i, j \in 1..Len(stt.records) :
        (/\ i # j
         /\ stt.records[i].kind = "final"
         /\ stt.records[j].kind = "final")
        => stt.records[i].utterance_id # stt.records[j].utterance_id

\* two final records have been sent
C15_Witness ==
    \E i, j \in 1..Len(stt.records) :
        /\ i < j
        /\ stt.records[i].kind = "final"
        /\ stt.records[j].kind = "final"

\* C16: under one utterance_id ts_start never decreases from one record to
\* the next, and no record follows the final one.
C16_StartsMonotoneFinalLast ==
    \A i, j \in 1..Len(stt.records) :
        (i < j /\ stt.records[i].utterance_id = stt.records[j].utterance_id)
        => (/\ stt.records[i].ts_start <= stt.records[j].ts_start
            /\ stt.records[i].kind # "final")

\* a partial record and then the final record of the same utterance, the
\* final one starting later
C16_Witness ==
    \E i, j \in 1..Len(stt.records) :
        /\ i < j
        /\ stt.records[i].utterance_id = stt.records[j].utterance_id
        /\ stt.records[i].kind = "partial"
        /\ stt.records[j].kind = "final"
        /\ stt.records[j].ts_start > 0

InFlight == { i \in SegIds : stt.task[i] = "running" }

\* C19: at most MaxInFlight provider calls are in flight, and the free
\* permits are MaxInFlight less the calls in flight: every call that ended,
\* however it ended, gave its permit back.
C19_PermitsBalanced ==
    /\ Cardinality(InFlight) <= MaxInFlight
    /\ stt.semaphore = MaxInFlight - Cardinality(InFlight)

\* calls have ended by success, by an exception and by cancellation, and
\* all permits are free
C19_Witness ==
    /\ stt.semaphore = MaxInFlight
    /\ \E i \in SegIds : stt.task[i] = "done"
    /\ \E i \in SegIds : stt.task[i] = "raised"
    /\ \E i \in SegIds : stt.task[i] = "cancelled"

\* C20: after a segment arrived while no permit was free, a slow message is
\* sent to the client, as long as the session goes on.
C20_SlowWhenFull ==
    stt.slow_owed ~> (~ stt.slow_owed \/ stt.pipe \in {"ended", "failed"})

IsFinal(record) == record.kind = "final"

\* C21: the publish calls made on the transcripts channel are, in order,
\* exactly the final records sent to the client, each with the utterance id,
\* text and timestamps of the record sent, and the call for a final record
\* is made before the next record is sent; a partial record causes no call.
C21_FinalsPublishedOnce ==
    LET finals == SelectSeq(stt.records, IsFinal)
    IN /\ Len(stt.attempts) = Len(finals)
       /\ \A i \in 1..Len(finals) :
             /\ stt.attempts[i].seg = finals[i].seg
             /\ stt.attempts[i].utterance_id = finals[i].utterance_id
             /\ stt.attempts[i].ts_start = finals[i].ts_start
             /\ stt.attempts[i].ts_end = finals[i].ts_end

C21_Witness ==
    /\ Len(stt.attempts) >= 1
    /\ \E i \in 1..Len(stt.records) : stt.records[i].kind = "partial"
    /\ \E i \in 1..Len(stt.records) : stt.records[i].kind = "final"

\* C22: when the handler of a session in which an error (not a disconnect)
\* happened has finished, an error message had been sent to the client and
\* the socket had been closed with code 1011.
C22_ErrorThenClose1011 ==
    (stt.ep = "closed" /\ stt.fault = "error")
        => (stt.error_sent /\ stt.ws_close_code = WS_1011_INTERNAL_ERROR)

SttClean ==
    /\ stt.ep = "closed"
    /\ stt.pipe \in {"ended", "failed"}
    /\ \A i \in SegIds : stt.task[i] \notin {"created", "running"}
    /\ stt.semaphore = MaxInFlight
    /\ ~ stt.is_connected
    /\ ~ stt.connected

\* C23: after the client disconnected, eventually the pipeline task has
\* finished, no transcription task runs or holds a permit, the publisher is
\* closed and the socket is no longer in the list of connections.
C23_DisconnectCleansUp == (stt.fault = "disconnect") ~> SttClean

C23_Witness ==
    /\ stt.fault = "disconnect"
    /\ SttClean
    /\ Len(stt.records) >= 1
    /\ \E i \in SegIds : stt.task[i] = "cancelled"

\* C28: every transcript record sent is of kind final (every segment the
\* segmenter yields is marked final).
C28_AllRecordsFinal ==
    \A i \in 1..Len(stt.records) : stt.records[i].kind = "final"

HasRecord(seg) == \E i \in 1..Len(stt.records) : stt.records[i].seg = seg

\* C29: while the client stays connected and nothing fails, a segment whose
\* transcription returned text is eventually sent to the client.
C29_ResultEventuallyEmitted ==
    \A seg \in SegIds :
        (stt.result[seg].kind = "text")
            ~> (HasRecord(seg) \/ stt.fault # "none" \/ stt.ep # "await")

PublishedSpec(intent) ==
    /\ Len(trigger'.published) = Len(trigger.published) + 1
    /\ SubSeq(trigger'.published, 1, Len(trigger.published)) = trigger.published
    /\ trigger'.published[Len(trigger'.published)].component = intent.component
    /\ trigger'.published[Len(trigger'.published)].source_utts
           = << intent.utterance_id >>

\* C24: for every message received on the intents channel one design spec
\* with the component and the utterance id of the intent is published when
\* the confidence of the intent is at least CONFIDENCE_THRESHOLD, and
\* nothing is published otherwise.
C24_OneSpecPerConfidentIntent ==
    [][trigger'.received # trigger.received =>
         IF /\ trigger'.message.type = "message"
            /\ trigger'.message.valid
            /\ trigger'.message.confidence >= CONFIDENCE_THRESHOLD
         THEN PublishedSpec(trigger'.message)
         ELSE trigger'.published = trigger.published]_vars

RECURSIVE CompProps(_, _)
CompProps(styles, component) ==
    IF styles = << >> \/ component = "none" THEN << >>
    ELSE << get_style_properties(comp_key_of(component, Head(styles))) >>
         \o CompProps(Tail(styles), component)

RECURSIVE StyleProps(_)
StyleProps(styles) ==
    IF styles = << >> THEN << >>
    ELSE << get_style_properties(Head(styles)) >> \o StyleProps(Tail(styles))

RECURSIVE BrandProps(_)
BrandProps(brand_refs) ==
    IF brand_refs = << >> THEN << >>
    ELSE << get_brand_properties(Head(brand_refs)) >> \o BrandProps(Tail(brand_refs))

\* C26: the theme tokens of a mapping request are the brand properties in
\* brand_refs order, then the style properties in styles order, then the
\* properties of the component keys, later values overriding earlier ones;
\* names that are not in the mappings contribute nothing.
C26_MergeOrder ==
    mapper.calls > 0 =>
        /\ ~ mapper.raised
        /\ mapper.theme_tokens =
             UpdateAll(UpdateAll(UpdateAll(ThemeTokens,
                                           BrandProps(mapper.request.brand_refs)),
                                 StyleProps(mapper.request.styles)),
                       CompProps(mapper.request.styles, mapper.request.component))

\* C27: every POST /v1/sessions answers 201 with a session id that was not
\* in active_sessions and now is, and a token whose decoded subject is that
\* id; a request that does not succeed adds no entry.
C27_SessionCreated ==
    [][api'.next_uuid # api.next_uuid =>
         /\ api'.response.status = 201
         /\ api'.response.session_id \notin DOMAIN api.active_sessions
         /\ api'.response.session_id \in DOMAIN api'.active_sessions
         /\ decode_jwt_token(api'.response.token).ok
         /\ decode_jwt_token(api'.response.token).sub = api'.response.session_id
         /\ (api'.response.status # 201
                => DOMAIN api'.active_sessions = DOMAIN api.active_sessions)]_vars

\* C25: with an outgoing queue of capacity 0 nothing is ever queued; every
\* send_json_str on an active connection adds one to the drop counter, and
\* the call that takes the counter above QueueFullLimit closes the
\* connection.
C25_ZeroCapacityDrops ==
    [][ /\ \A c \in Conns :
             /\ conn'[c].outgoing_queue = << >>
             /\ conn'[c].accepted = conn[c].accepted
        /\ (offers' # offers) =>
              \E c \in Conns :
                  /\ conn[c].active
                  /\ conn'[c].queue_full_count = conn[c].queue_full_count + 1
                  /\ (conn'[c].queue_full_count > QueueFullLimit
                         => ~ conn'[c].active) ]_vars

CloseReleased(cn) ==
    /\ cn.sender_task \in {"none", "done"}
    /\ cn.receiver_task \in {"none", "done"}
    /\ cn.heartbeat_task \in {"none", "done"}
    /\ cn.client_state = "DISCONNECTED" \/ cn.ws_close_calls > 0
    /\ cn.stt_ws \in {"none", "closed"}

\* C30: when a call of close returns, be it the call that did the closing or
\* a call that found the connection inactive, the three tasks have
\* terminated and the client socket and the STT proxy have been closed.
C30_Step(c) ==
    /\ (conn'[c].close_calls > conn[c].close_calls /\ ~ conn[c].active)
           => CloseReleased(conn'[c])
    /\ (conn[c].closePc # "returned" /\ conn'[c].closePc = "returned")
           => CloseReleased(conn'[c])

C30_CloseReturnsReleased == [][\A c \in Conns : C30_Step(c)]_vars

\* C31: while speaking, a window takes the segmenter back to idle exactly
\* when it is scored as silence and the silence counted since the last
\* speech window reaches VAD_MIN_SILENCE_DURATION_MS with it; until then the
\* counted silence stays below that minimum, and after the transition the
\* frame buffer is empty and the silence counter is 0.
SilenceSinceSpeech(v) == v.silent_since_speech * vad_window_duration_ms

C31_Step ==
    (vad.is_speaking /\ vad'.fed = vad.fed + 1) =>
        /\ SilenceSinceSpeech(vad) < VAD_MIN_SILENCE_DURATION_MS
        /\ (~ vad'.is_speaking) <=>
               /\ vad'.silent_since_speech = vad.silent_since_speech + 1
               /\ SilenceSinceSpeech(vad') >= VAD_MIN_SILENCE_DURATION_MS
        /\ (~ vad'.is_speaking) =>
               /\ vad'.frames = 0
               /\ vad'.first = 0
               /\ vad'.silence_counter_ms = 0

C31_IdleAfterMinSilence == [][C31_Step]_vars

\* a segment was closed by silence that speech had interrupted before
C31_Witness ==
    \E i \in 1..Len(vad.emitted) :
        /\ vad.emitted[i].at = "silence"
        /\ vad.emitted[i].frames > vad.emitted[i].speech + 11
        /\ vad.emitted[i].speech > 1

\* C32: every yielded segment holds all the windows of the stream from
\* the first speech window of its utterance to the window that closed it,
\* in order and without a gap: as many windows as there are positions from
\* its first to its last.
C32_SegmentIsContiguous ==
    \A i \in 1..Len(vad.emitted) :
        /\ vad.emitted[i].first >= 1
        /\ vad.emitted[i].frames =
               vad.emitted[i].last - vad.emitted[i].first + 1

\* C33: the last byte of a chunk of odd length is in no window handed to
\* the model, and the first byte of every chunk falls on an even offset
\* of the window it lands in.
InAnalysedWindow(k, b) ==
    \E i \in 1..Len(vad.analysed) :
        \E j \in 1..Len(vad.analysed[i]) :
            /\ vad.analysed[i][j].chunk = k
            /\ vad.analysed[i][j].lo <= b
            /\ b < vad.analysed[i][j].hi

C33_OddByteTrimmed ==
    /\ \A k \in 1..Len(vad.chunk_lens) :
          vad.chunk_lens[k] % 2 = 1 =>
              ~ InAnalysedWindow(k, vad.chunk_lens[k] - 1)
    /\ \A i \in 1..Len(vad.analysed) :
          \A j \in 1..Len(vad.analysed[i]) :
              vad.analysed[i][j].lo = 0 =>
                  RunBytes(SubSeq(vad.analysed[i], 1, j - 1)) % 2 = 0

\* C34: a segment whose provider call failed has no record sent and no
\* publish call, and its task has ended and given its permit back; the
\* step on which the call fails touches no other task, neither the
\* generator nor the pipeline, and while nothing else fails no task is
\* cancelled; once the segment stream has ended every other segment with
\* text is sent to the client.
Failed(seg) == stt.result[seg].kind = "fail"

C34_FailedSilent ==
    \A seg \in SegIds :
        Failed(seg) =>
            /\ stt.task[seg] = "done"
            /\ ~ HasRecord(seg)
            /\ seg \notin Range(stt.published)
            /\ \A k \in 1..Len(stt.attempts) : stt.attempts[k].seg # seg

C34_FailStep ==
    \A seg \in SegIds :
        (stt.result[seg].kind # "fail" /\ stt'.result[seg].kind = "fail") =>
            /\ stt'.semaphore = stt.semaphore + 1
            /\ \A other \in SegIds \ {seg} :
                  /\ stt'.task[other] = stt.task[other]
                  /\ stt'.result[other] = stt.result[other]
            /\ stt'.gen = stt.gen
            /\ stt'.pipe = stt.pipe
            /\ stt'.ep = stt.ep
            /\ stt'.fault = stt.fault
            /\ stt'.records = stt.records

C34_NoneCancelled ==
    stt.fault = "none" => \A seg \in SegIds : stt.task[seg] # "cancelled"

C35_Step ==
    (loader'.loads = loader.loads + 1) =>
        LET newer == /\ loader.file.exists
                     /\ loader.file.mtime > loader.last_modified_time
            good == newer /\ loader.written[loader.file.content] = "valid"
        IN /\ good =>
                 /\ loader'.mappings_data = loader.file.content
                 /\ loader'.last_modified_time = loader.file.mtime
                 /\ loader'.returned = "True"
           /\ ~ good =>
                 /\ loader'.mappings_data = loader.mappings_data
                 /\ loader'.last_modified_time = loader.last_modified_time
           /\ (~ loader.file.exists \/ (newer /\ ~ good)) =>
                 loader'.returned = "False"

C35_ReloadOnlyNewerValid ==
    /\ [][C35_Step]_vars
    /\ [](loader.written[loader.mappings_data] = "valid")

\* a load failed on a bad file, and the valid content written after it is
\* the snapshot now
C35_Witness ==
    /\ loader.mappings_data = 3
    /\ loader.written[2] # "valid"
    /\ loader.last_modified_time > 1
    /\ loader.loads >= 2
    /\ loader.returned = "True"

\* C40: the three parts of a mapping response (brand properties, style
\* properties, token-to-class entries) come from one content of the
\* mappings file.
C40_OneSnapshotPerResponse ==
    /\ loader.response.brands = loader.response.styles
    /\ loader.response.styles = loader.response.token_map

\* C36: once the startup has failed to connect and the broker is
\* reachable, the client comes to hold a live subscription (unless the
\* service is shut down first).
C36_SubscribesAfterLateBroker ==
    (redis.pc = "none" /\ redis.up)
        ~> ((redis.pubsub_client /\ redis.pubsubLive) \/ redis.sd # "none")

\* C37: a loop that was running when start_subscriber was called again
\* ends when it next looks at the stop event, and no bus message is passed
\* to the handler twice.
C37_OldLoopEnds ==
    /\ redis.old # "continued"
    /\ \A i, j \in 1..Len(redis.passed) :
          i # j => redis.passed[i] # redis.passed[j]

\* C38: the endpoint goes on to accept a connection only when the session
\* of the path is in active_sessions at that moment.
C38_Step(c) ==
    (conn[c].ep = "idle" /\ conn'[c].ep = "accepting") =>
        \E i \in DOMAIN api.active_sessions :
            SessionStr(i) = conn'[c].session_id

C38_AdmittedOnlyActiveSession == [][\A c \in Conns : C38_Step(c)]_vars

\* a connection that the manager still holds and that is no longer active
Inactive(c) == c \in active_connections /\ ~ conn[c].active

\* nothing is put on the queue of such a connection, and no drop is counted
C39_Step(c) ==
    Inactive(c) =>
        /\ conn'[c].accepted = conn[c].accepted
        /\ conn'[c].queue_full_count = conn[c].queue_full_count
        /\ Len(conn'[c].outgoing_queue) <= Len(conn[c].outgoing_queue)

\* closed by the client, by an error of one of its tasks, or by the
\* force-close of a broadcast: every way but the force-close that the
\* receiver task runs into when it queues an acknowledgement
ClosedAsListed(c) ==
    ~ (conn[c].closer = "receiver" /\ conn[c].close_reason = "backpressure")

====
